---------------------------- MODULE Spec2Model ----------------------------
(***************************************************************************)
(* A model of the proxy routing core of cc-switch-tui:                     *)
(*   - FailoverSwitchManager (proxy/failover_switch.rs): SpecSwitch        *)
(*   - UrlRouter and its per-URL circuit breakers (proxy/url_router.rs):   *)
(*     SpecRouter, SpecSelect, SpecRegistry                                *)
(*   - UrlLatencyService (services/url_latency.rs): SpecService for the    *)
(*     background loop, SpecProbe and SpecProbeRace for a probe cycle,     *)
(*     SpecCycle for test_app_endpoints over the providers of an app       *)
(*   - concurrent record_url_result calls: SpecRecords; the hybrid mode    *)
(*     queries: SpecHybrid                                                 *)
(*   - the provider form (tui/views/provider_form.rs): SpecForm; its       *)
(*     TextInput (tui/widgets/input.rs): SpecInput                         *)
(* The Database, the device-local settings, the SpeedtestService and the   *)
(* CircuitBreaker are collaborators whose code is not part of the sources  *)
(* at hand; they are modelled from the written specification and marked    *)
(* so in the map.                                                          *)
(***************************************************************************)
EXTENDS Integers, Sequences, FiniteSets, TLC

(***************************************************************************)
(* Bounds of the model.                                                    *)
(***************************************************************************)
\* Number of try_switch calls that may be issued (and overlap).
NTasks == 2

\* Number of outcomes recorded on the breaker under test.
MaxRecords == 5

\* The clock runs from 0 to MaxTime seconds, in steps of TickSeconds.
MaxTime == 45

TickSeconds == 15

\* Number of record_url_result calls made on the router.
MaxUrlResults == 3

\* Number of start() and stop() calls made on the latency service.
MaxCalls == 3

\* Number of test_provider_endpoints calls made for the provider.
MaxCycles == 2

\* The longest text typed into the base URL field of the provider form.
MaxInputLen == 4

\* The most characters held by the TextInput.
MaxValueLen == 3

\* Number of test_app_endpoints calls made.
MaxAppCycles == 2

Tasks == 1..NTasks

(***************************************************************************)
(* Values.                                                                 *)
(***************************************************************************)
None == "none"

\* Option<T> holding a number: Nothing, or Some(x).
Nothing == <<>>

Some(x) == <<x>>

\* The strings AppType::from_str accepts (the closed enumeration of three).
AppTypes == {"claude", "codex", "gemini"}

\* app_type strings a caller passes to try_switch: two valid ones and one
\* that is no AppType.
SwitchApps == {"claude", "codex", "bogus"}

\* Providers that exist in the database for every AppType.
Providers == {"p1", "p2"}

\* The provider that is current (database and settings) at start.
InitialProvider == "p1"

VARIABLES
    pending_switches,   \* FailoverSwitchManager.pending_switches: set of keys
    dbCurrent,          \* Database: app -> set of providers with is_current
    settingsCurrent,    \* device-local settings: AppType -> current provider
    proxyEnabled,       \* Database: app -> ProxyAppConfig.enabled
    task                \* the try_switch calls: position, arguments, outcome

switchVars == <<pending_switches, dbCurrent, settingsCurrent, proxyEnabled, task>>

VARIABLES
    now,                \* the clock, in seconds
    cb,                 \* a CircuitBreaker under test
    recorded,           \* the outcomes recorded on cb, oldest first
    avail,              \* what is_available() has just returned for cb, if asked
    holders             \* number of callers holding a trial permit of cb

breakerVars == <<now, cb, recorded, avail, holders>>

VARIABLES
    endpoints,          \* Database: the persisted endpoints of the provider
    circuit_breakers,   \* UrlRouter.circuit_breakers: key -> breaker
    sel,                \* a select_url call
    rec,                \* a record_url_result call
    nresults            \* number of record_url_result calls made so far

routerVars == <<endpoints, circuit_breakers, sel, rec, nresults>>

VARIABLES
    running,            \* UrlLatencyService.running
    ptasks,             \* the tasks start() has spawned: position and history
    calls               \* number of start() and stop() calls made so far

serviceVars == <<running, ptasks, calls>>

VARIABLES
    probe,              \* a test_provider_endpoints call
    ncycles             \* number of test_provider_endpoints calls made so far

probeVars == <<probe, ncycles>>

VARIABLES
    registry,           \* UrlRouter.circuit_breakers, as key -> breaker number
    callers,            \* the get_or_create_circuit_breaker calls
    created,            \* the breakers created so far: <<key, number>>
    outcomes,           \* breaker number -> outcomes recorded on it
    made                \* key -> outcomes recorded by callers for the key

registryVars == <<registry, callers, created, outcomes, made>>

VARIABLES
    hybrid              \* stored hybrid mode configs and the last hybrid query

hybridVars == <<hybrid>>

VARIABLES
    form                \* the provider form

formVars == <<form>>

VARIABLES
    popup_input         \* the TextInput of the popup (value, cursor as a byte offset)

inputVars == <<popup_input>>

VARIABLES
    recs                \* the concurrent record_url_result calls for one URL

recordsVars == <<recs>>

VARIABLES
    store,              \* the stored endpoints of each provider of each app
    cycle               \* the test_app_endpoints call in progress

cycleVars == <<store, cycle>>

vars ==
    <<switchVars, breakerVars, routerVars, serviceVars, probeVars, registryVars, hybridVars, formVars, inputVars, recordsVars, cycleVars>>

(***************************************************************************)
(* FailoverSwitchManager                                                   *)
(***************************************************************************)

\* let switch_key = format!("{app_type}:{provider_id}");
SwitchKey(app, pid) == app \o ":" \o pid

KeyOf(t) == SwitchKey(task[t].app, task[t].pid)

\* AppType::from_str(app_type).is_ok()
IsAppType(app) == app \in AppTypes

\* Database.set_current_provider(app, pid): one atomic flip of is_current
\* over the providers of that app; an app that is no AppType has no
\* providers, so nothing is flipped.
DbSetCurrentProvider(cur, app, pid) ==
    IF app \in AppTypes THEN [cur EXCEPT ![app] = {pid}] ELSE cur

\* settings::set_current_provider(&app_type_enum, Some(provider_id))
SettingsSetCurrentProvider(cur, app, pid) == [cur EXCEPT ![app] = pid]

\* The provider_name a caller passes along with provider_id.
ProviderName(pid) == IF pid = "p1" THEN "P1" ELSE "P2"

\* A try_switch call: where it stands (pc), its arguments (app, pid), what
\* get_proxy_config_for_app gave it (cfg: none yet, "err", "on", "off"), its
\* return value (result), the calls that were in progress when it was
\* issued (during), and whether it has written each store.
IdleTask ==
    [pc |-> "idle", app |-> "claude", pid |-> "p1", cfg |-> None,
     result |-> None, during |-> {}, wroteDb |-> FALSE, wroteSettings |-> FALSE]

InProgress(t) == task[t].pc \notin {"idle", "done"}

\* The call holds its key: it has inserted it and not yet removed it.
InDoSwitch(t) == task[t].pc \in {"config", "dbwrite", "settings", "cleanup"}

\* Suspension points of try_switch (an .await): the two lock acquisitions
\* and the configuration read.
Suspended(t) == task[t].pc \in {"lock", "config", "cleanup"}

InitSwitchState ==
    /\ pending_switches = {}
    /\ dbCurrent = [a \in SwitchApps |->
                      IF a \in AppTypes THEN {InitialProvider} ELSE {}]
    /\ settingsCurrent = [a \in AppTypes |-> InitialProvider]
    /\ proxyEnabled \in [SwitchApps -> BOOLEAN]
    /\ task = [t \in Tasks |-> IdleTask]

\* A caller invokes try_switch(app_type, provider_id, _): the key is formed
\* and the call waits for the pending set's write lock.  Calls are numbered
\* in the order they are issued.
Call(t, app, pid) ==
    /\ task[t].pc = "idle"
    /\ \A u \in Tasks : u < t => task[u].pc # "idle"
    /\ task' = [task EXCEPT ![t] =
                  [IdleTask EXCEPT !.pc = "lock", !.app = app, !.pid = pid,
                                   !.during = {u \in Tasks : InProgress(u)}]]
    /\ UNCHANGED <<pending_switches, dbCurrent, settingsCurrent, proxyEnabled>>
    /\ UNCHANGED <<breakerVars, routerVars, serviceVars, probeVars, registryVars, hybridVars, formVars, inputVars, recordsVars, cycleVars>>

\* What the first locked block does with the pending set and where the call
\* goes: <<new pending set, next pc, result>>.
DedupCheckSkipped(pend, key) == <<pend \cup {key}, "config", None>>

DedupCheck(pend, key) ==
    IF key \in pend
    THEN <<pend, "done", "false">>
    ELSE <<pend \cup {key}, "config", None>>

\* The first block, under the write lock: contains? return Ok(false) : insert.
CheckPending(t) ==
    /\ task[t].pc = "lock"
    /\ LET r == DedupCheck(pending_switches, KeyOf(t)) IN
        /\ pending_switches' = r[1]
        /\ task' = [task EXCEPT ![t].pc = r[2], ![t].result = r[3]]
    /\ UNCHANGED <<dbCurrent, settingsCurrent, proxyEnabled>>
    /\ UNCHANGED <<breakerVars, routerVars, serviceVars, probeVars, registryVars, hybridVars, formVars, inputVars, recordsVars, cycleVars>>

\* What do_switch does with the outcome of get_proxy_config_for_app:
\* <<next pc, result>>; ok = the read succeeded, enabled = config.enabled.
ConfigDecisionIgnoresEnabled(ok, enabled) ==
    IF ~ok THEN <<"cleanup", "false">> ELSE <<"dbwrite", None>>

ConfigDecisionInverted(ok, enabled) ==
    IF ~ok THEN <<"cleanup", "false">>
    ELSE IF enabled THEN <<"cleanup", "false">>
    ELSE <<"dbwrite", None>>

ConfigDecisionErrProceeds(ok, enabled) ==
    IF ok /\ ~enabled THEN <<"cleanup", "false">> ELSE <<"dbwrite", None>>

ConfigDecision(ok, enabled) ==
    IF ~ok THEN <<"cleanup", "false">>
    ELSE IF ~enabled THEN <<"cleanup", "false">>
    ELSE <<"dbwrite", None>>

\* do_switch: get_proxy_config_for_app(app_type).await and the enabled test.
ReadConfig(t, ok) ==
    /\ task[t].pc = "config"
    /\ LET d == ConfigDecision(ok, proxyEnabled[task[t].app]) IN
        task' = [task EXCEPT
                   ![t].pc = d[1], ![t].result = d[2],
                   ![t].cfg = IF ~ok THEN "err"
                              ELSE IF proxyEnabled[task[t].app] THEN "on"
                              ELSE "off"]
    /\ UNCHANGED <<pending_switches, dbCurrent, settingsCurrent, proxyEnabled>>
    /\ UNCHANGED <<breakerVars, routerVars, serviceVars, probeVars, registryVars, hybridVars, formVars, inputVars, recordsVars, cycleVars>>

\* The identifier do_switch hands to Database.set_current_provider, of the
\* two strings it was given.
SwitchTargetByName(provider_id, provider_name) == provider_name

SwitchTarget(provider_id, provider_name) == provider_id

\* do_switch: self.db.set_current_provider(app_type, provider_id)?
DbWrite(t, ok) ==
    /\ task[t].pc = "dbwrite"
    /\ IF ok
       THEN /\ dbCurrent' = DbSetCurrentProvider(dbCurrent, task[t].app,
                    SwitchTarget(task[t].pid, ProviderName(task[t].pid)))
            /\ task' = [task EXCEPT ![t].pc = "settings",
                                    ![t].wroteDb = IsAppType(task[t].app)]
       ELSE /\ dbCurrent' = dbCurrent
            /\ task' = [task EXCEPT ![t].pc = "cleanup", ![t].result = "err"]
    /\ UNCHANGED <<pending_switches, settingsCurrent, proxyEnabled>>
    /\ UNCHANGED <<breakerVars, routerVars, serviceVars, probeVars, registryVars, hybridVars, formVars, inputVars, recordsVars, cycleVars>>

\* The provider do_switch hands to settings::set_current_provider.
SettingsValueCleared(pid) == None

SettingsValue(pid) == pid

\* do_switch: AppType::from_str(app_type)? and
\* settings::set_current_provider(&app_type_enum, Some(provider_id))?
SettingsWrite(t, ok) ==
    /\ task[t].pc = "settings"
    /\ IF IsAppType(task[t].app) /\ ok
       THEN /\ settingsCurrent' = SettingsSetCurrentProvider(
                    settingsCurrent, task[t].app, SettingsValue(task[t].pid))
            /\ task' = [task EXCEPT ![t].pc = "cleanup", ![t].result = "true",
                                    ![t].wroteSettings = TRUE]
       ELSE /\ settingsCurrent' = settingsCurrent
            /\ task' = [task EXCEPT ![t].pc = "cleanup", ![t].result = "err"]
    /\ UNCHANGED <<pending_switches, dbCurrent, proxyEnabled>>
    /\ UNCHANGED <<breakerVars, routerVars, serviceVars, probeVars, registryVars, hybridVars, formVars, inputVars, recordsVars, cycleVars>>

\* The last block, under the write lock: pending.remove(&switch_key); result
RemovePending(t) ==
    /\ task[t].pc = "cleanup"
    /\ pending_switches' = pending_switches \ {KeyOf(t)}
    /\ task' = [task EXCEPT ![t].pc = "done"]
    /\ UNCHANGED <<dbCurrent, settingsCurrent, proxyEnabled>>
    /\ UNCHANGED <<breakerVars, routerVars, serviceVars, probeVars, registryVars, hybridVars, formVars, inputVars, recordsVars, cycleVars>>

\* The caller drops the try_switch future while it is suspended at an
\* .await: nothing after that point runs (there is no drop guard).
Abandon(t) ==
    /\ Suspended(t)
    /\ task' = [task EXCEPT ![t].pc = "done", ![t].result = "abandoned"]
    /\ UNCHANGED <<pending_switches, dbCurrent, settingsCurrent, proxyEnabled>>
    /\ UNCHANGED <<breakerVars, routerVars, serviceVars, probeVars, registryVars, hybridVars, formVars, inputVars, recordsVars, cycleVars>>

NextSwitchStep ==
    \E t \in Tasks :
        \/ \E app \in SwitchApps, pid \in Providers : Call(t, app, pid)
        \/ CheckPending(t)
        \/ \E ok \in BOOLEAN : ReadConfig(t, ok)
        \/ \E ok \in BOOLEAN : DbWrite(t, ok)
        \/ \E ok \in BOOLEAN : SettingsWrite(t, ok)
        \/ RemovePending(t)
        \/ Abandon(t)

(***************************************************************************)
(* CircuitBreaker                                                          *)
(***************************************************************************)

\* UrlRouter::new: default_config.
FailureThreshold == 3

SuccessThreshold == 2

TimeoutSeconds == 30

\* error_rate_threshold: 0.5, as the ratio ErrorRateNum / ErrorRateDen.
ErrorRateNum == 1

ErrorRateDen == 2

MinRequests == 5

DefaultConfigClosesEarly ==
    [failure_threshold |-> FailureThreshold,
     success_threshold |-> SuccessThreshold - 1,
     timeout_seconds |-> TimeoutSeconds,
     error_rate_num |-> ErrorRateNum,
     error_rate_den |-> ErrorRateDen,
     min_requests |-> MinRequests]

DefaultConfigTripsEarly ==
    [failure_threshold |-> FailureThreshold - 1,
     success_threshold |-> SuccessThreshold,
     timeout_seconds |-> TimeoutSeconds,
     error_rate_num |-> ErrorRateNum,
     error_rate_den |-> ErrorRateDen,
     min_requests |-> MinRequests]

DefaultConfig ==
    [failure_threshold |-> FailureThreshold,
     success_threshold |-> SuccessThreshold,
     timeout_seconds |-> TimeoutSeconds,
     error_rate_num |-> ErrorRateNum,
     error_rate_den |-> ErrorRateDen,
     min_requests |-> MinRequests]

\* The rolling window keeps the last WindowSize outcomes.
WindowSize == 50

\* CircuitBreaker::new(config): Closed, all counters zero, never opened.
\* window holds the outcomes in the rolling window (TRUE = success), permit
\* tells whether the half-open trial permit is handed out.
NewBreaker(config) ==
    [config |-> config, state |-> "Closed",
     consecutive_failures |-> 0, consecutive_successes |-> 0,
     window |-> <<>>, opened_at |-> Nothing, permit |-> FALSE]

\* The rolling window after one more outcome: the oldest falls out when the
\* window is full.
PushWindow(w, outcome) ==
    IF Len(w) < WindowSize THEN Append(w, outcome)
    ELSE Append(SubSeq(w, 2, Len(w)), outcome)

\* total_failures_in_window
WindowFailures(w) == Cardinality({i \in 1..Len(w) : ~w[i]})

\* window_size >= min_requests AND failure_rate >= error_rate_threshold
RateTripped(config, w) ==
    /\ Len(w) >= config.min_requests
    /\ Len(w) > 0
    /\ WindowFailures(w) * config.error_rate_den >= config.error_rate_num * Len(w)

\* now - opened_at >= timeout_seconds
CooldownElapsed(b, t) ==
    /\ b.opened_at # Nothing
    /\ t - b.opened_at[1] >= b.config.timeout_seconds

\* get_state()
GetState(b) == b.state

\* get_stats()
GetStats(b) ==
    [consecutive_failures |-> b.consecutive_failures,
     consecutive_successes |-> b.consecutive_successes,
     total_requests_in_window |-> Len(b.window),
     total_failures_in_window |-> WindowFailures(b.window),
     opened_at |-> b.opened_at]

\* is_available(): false if Open and the cooldown has not elapsed.
IsAvailableWhileOpen(b, t) == TRUE

IsAvailableNeverWhileOpen(b, t) == b.state # "Open"

IsAvailable(b, t) == ~(b.state = "Open" /\ ~CooldownElapsed(b, t))

\* The availability check made with the half-open permit: <<allowed, b'>>.
\* Open with the cooldown elapsed moves to HalfOpen and hands out the one
\* trial permit (not while a caller still holds it from an earlier HalfOpen);
\* HalfOpen admits a caller only while the permit is free.
AllowRequestAdmitsAll(b, t) ==
    CASE b.state = "Closed" -> <<TRUE, b>>
      [] b.state = "Open" ->
            IF CooldownElapsed(b, t)
            THEN <<TRUE, [b EXCEPT !.state = "HalfOpen",
                                   !.consecutive_successes = 0,
                                   !.permit = TRUE]>>
            ELSE <<FALSE, b>>
      [] OTHER -> <<TRUE, [b EXCEPT !.permit = TRUE]>>

AllowRequest(b, t) ==
    CASE b.state = "Closed" -> <<TRUE, b>>
      [] b.state = "Open" ->
            IF CooldownElapsed(b, t) /\ ~b.permit
            THEN <<TRUE, [b EXCEPT !.state = "HalfOpen",
                                   !.consecutive_successes = 0,
                                   !.permit = TRUE]>>
            ELSE <<FALSE, b>>
      [] OTHER ->
            IF b.permit THEN <<FALSE, b>>
            ELSE <<TRUE, [b EXCEPT !.permit = TRUE]>>

\* record_success(with_permit)
RecordSuccess(b, with_permit) ==
    LET c == [b EXCEPT
                !.permit = IF with_permit THEN FALSE ELSE @,
                !.consecutive_failures = 0,
                !.consecutive_successes = @ + 1,
                !.window = PushWindow(@, TRUE)]
    IN  IF b.state = "HalfOpen"
           /\ c.consecutive_successes >= b.config.success_threshold
        THEN [c EXCEPT !.state = "Closed"]
        ELSE c

\* record_failure(with_permit), at time t
RecordFailureChecksBeforeCounting(b, with_permit, t) ==
    LET c == [b EXCEPT
                !.permit = IF with_permit THEN FALSE ELSE @,
                !.consecutive_failures = @ + 1,
                !.consecutive_successes = 0,
                !.window = PushWindow(@, FALSE)]
    IN  CASE b.state = "Closed" ->
                IF \/ b.consecutive_failures >= b.config.failure_threshold
                   \/ RateTripped(b.config, b.window)
                THEN [c EXCEPT !.state = "Open", !.opened_at = Some(t)]
                ELSE c
          [] b.state = "HalfOpen" ->
                [c EXCEPT !.state = "Open", !.opened_at = Some(t)]
          [] OTHER -> c

RecordFailure(b, with_permit, t) ==
    LET c == [b EXCEPT
                !.permit = IF with_permit THEN FALSE ELSE @,
                !.consecutive_failures = @ + 1,
                !.consecutive_successes = 0,
                !.window = PushWindow(@, FALSE)]
    IN  CASE b.state = "Closed" ->
                IF \/ c.consecutive_failures >= b.config.failure_threshold
                   \/ RateTripped(b.config, c.window)
                THEN [c EXCEPT !.state = "Open", !.opened_at = Some(t)]
                ELSE c
          [] b.state = "HalfOpen" ->
                [c EXCEPT !.state = "Open", !.opened_at = Some(t)]
          [] OTHER -> c

(***************************************************************************)
(* UrlRouter: how record_url_result drives a breaker                       *)
(***************************************************************************)

\* record_url_result: if success { record_success(false) }
\*                    else { record_failure(false) }
RecordOutcomeSwapped(b, success, t) ==
    IF success THEN RecordFailure(b, FALSE, t) ELSE RecordSuccess(b, FALSE)

RecordOutcome(b, success, t) ==
    IF success THEN RecordSuccess(b, FALSE) ELSE RecordFailure(b, FALSE, t)

(***************************************************************************)
(* UrlRouter                                                               *)
(***************************************************************************)

\* URLs are strings of characters.
UrlA == <<"a">>

UrlASlash == <<"a", "/">>

UrlB == <<"b">>

UrlC == <<"c">>

\* The URLs of the endpoints the provider may have persisted.
EndpointUrls == {UrlA, UrlB}

\* The config_base_url values passed to select_url.
ConfigUrls == {UrlA, UrlASlash, UrlC}

\* The URLs record_url_result is called with: the request layer reports on
\* the URL select_url gave it, the latency service on the persisted URLs.
ResultUrls ==
    {endpoints[i].url : i \in 1..Len(endpoints)}
    \cup (IF sel.pc = "done" /\ sel.result.kind = "ok"
          THEN {sel.result.url} ELSE {})

\* Latencies found persisted at start.
InitialLatencies == {Nothing}

\* The latency reported with a result: a request that succeeded reports the
\* time it took, one that failed reports none.
ResultLatencies(success) == IF success THEN {Some(70)} ELSE {Nothing}

\* The provider whose URLs are routed.
RouterProvider == "p1"

\* str::trim_end_matches('/')
RECURSIVE TrimEndSlash(_)
TrimEndSlash(url) ==
    IF Len(url) > 0 /\ url[Len(url)] = "/"
    THEN TrimEndSlash(SubSeq(url, 1, Len(url) - 1))
    ELSE url

\* The byte of a character.
CharCode(c) ==
    CASE c = "a" -> 97 [] c = "b" -> 98 [] c = "c" -> 99 [] c = "/" -> 47
      [] OTHER -> 32

\* hash_url: a hash of the bytes of the URL (u64 in the code; kept to
\* HashBits bits here, which the model checker's integers can hold).  Equal
\* strings hash alike; the URLs of the model hash apart.
HashBits == 16

RECURSIVE HashUrl(_)
HashUrl(url) ==
    IF url = <<>> THEN 7
    ELSE (HashUrl(SubSeq(url, 1, Len(url) - 1)) * 31 + CharCode(url[Len(url)]))
            % (2 ^ HashBits)

\* let key = format!("{}:{}", provider_id, Self::hash_url(url));
BreakerKey(provider_id, url) == <<provider_id, HashUrl(url)>>

\* get_or_create_circuit_breaker: the map after the call (the breaker of
\* the key is registered if it was not).
GetOrCreateAlwaysCreates(breakers, key) ==
    [k \in DOMAIN breakers \cup {key} |->
        IF k = key THEN NewBreaker(DefaultConfig) ELSE breakers[k]]

GetOrCreateCircuitBreaker(breakers, key) ==
    IF key \in DOMAIN breakers THEN breakers
    ELSE [k \in DOMAIN breakers \cup {key} |->
            IF k = key THEN NewBreaker(DefaultConfig) ELSE breakers[k]]

\* A ProviderEndpoint (id, provider_id, app_type, last_tested_at left out).
Endpoint(url, latency_ms, is_healthy, consecutive_failures, is_primary) ==
    [url |-> url, latency_ms |-> latency_ms, is_healthy |-> is_healthy,
     consecutive_failures |-> consecutive_failures, is_primary |-> is_primary]

\* (get_all_urls with the virtual endpoint always primary.)
GetAllUrlsVirtualPrimary(eps, config_base_url) ==
    LET config_url_normalized == TrimEndSlash(config_base_url)
        config_exists ==
            \E i \in 1..Len(eps) : TrimEndSlash(eps[i].url) = config_url_normalized
    IN  IF config_exists THEN eps
        ELSE <<Endpoint(config_base_url, Nothing, TRUE, 0, TRUE)>> \o eps

\* get_all_urls, given the rows the database returned.
GetAllUrls(eps, config_base_url) ==
    LET config_url_normalized == TrimEndSlash(config_base_url)
        config_exists ==
            \E i \in 1..Len(eps) : TrimEndSlash(eps[i].url) = config_url_normalized
    IN  IF config_exists THEN eps
        ELSE <<Endpoint(config_base_url, Nothing, TRUE, 0, eps = <<>>)>> \o eps

\* The comparator of available_urls.sort_by: "Less", "Equal" or "Greater".
CompareEndpointsUnmeasuredFirst(a, b) ==
    IF a.is_primary /\ ~b.is_primary THEN "Less"
    ELSE IF ~a.is_primary /\ b.is_primary THEN "Greater"
    ELSE IF a.latency_ms # Nothing /\ b.latency_ms # Nothing
         THEN IF a.latency_ms[1] < b.latency_ms[1] THEN "Less"
              ELSE IF a.latency_ms[1] > b.latency_ms[1] THEN "Greater"
              ELSE "Equal"
    ELSE IF a.latency_ms # Nothing THEN "Greater"
    ELSE IF b.latency_ms # Nothing THEN "Less"
    ELSE "Equal"

CompareEndpoints(a, b) ==
    IF a.is_primary /\ ~b.is_primary THEN "Less"
    ELSE IF ~a.is_primary /\ b.is_primary THEN "Greater"
    ELSE IF a.latency_ms # Nothing /\ b.latency_ms # Nothing
         THEN IF a.latency_ms[1] < b.latency_ms[1] THEN "Less"
              ELSE IF a.latency_ms[1] > b.latency_ms[1] THEN "Greater"
              ELSE "Equal"
    ELSE IF a.latency_ms # Nothing THEN "Less"
    ELSE IF b.latency_ms # Nothing THEN "Greater"
    ELSE "Equal"

\* x put into the sorted list s, behind the elements it does not precede.
RECURSIVE InsertSorted(_, _)
InsertSorted(s, x) ==
    IF s = <<>> THEN <<x>>
    ELSE IF CompareEndpoints(x, s[1]) = "Less" THEN <<x>> \o s
    ELSE <<s[1]>> \o InsertSorted(Tail(s), x)

\* slice::sort_by (a stable sort) with that comparator.
RECURSIVE SortEndpoints(_)
SortEndpoints(s) ==
    IF s = <<>> THEN <<>>
    ELSE InsertSorted(SortEndpoints(SubSeq(s, 1, Len(s) - 1)), s[Len(s)])

\* Whether select_url keeps a candidate, given what is_available() said.
KeepCandidateInverted(available) == ~available

KeepCandidate(available) == available

\* The end of select_url: the URL returned, given the candidates kept.
ChooseUrlNoDegrade(available_urls, all_urls, config_base_url) ==
    IF available_urls = <<>> THEN all_urls[1].url
    ELSE SortEndpoints(available_urls)[1].url

ChooseUrlSortsAll(available_urls, all_urls, config_base_url) ==
    IF available_urls = <<>> THEN config_base_url
    ELSE SortEndpoints(all_urls)[1].url

ChooseUrl(available_urls, all_urls, config_base_url) ==
    IF available_urls = <<>> THEN config_base_url
    ELSE SortEndpoints(available_urls)[1].url

\* Database.update_endpoint_health: upsert by url.
DbUpdateEndpointHealth(eps, url, latency_ms, is_healthy, consecutive_failures) ==
    IF \E i \in 1..Len(eps) : eps[i].url = url
    THEN [i \in 1..Len(eps) |->
            IF eps[i].url = url
            THEN [eps[i] EXCEPT !.latency_ms = latency_ms,
                                !.is_healthy = is_healthy,
                                !.consecutive_failures = consecutive_failures]
            ELSE eps[i]]
    ELSE Append(eps, Endpoint(url, latency_ms, is_healthy,
                              consecutive_failures, FALSE))

\* What select_url reads of a candidate endpoint.
Candidate(e) ==
    [url |-> e.url, latency_ms |-> e.latency_ms, is_primary |-> e.is_primary]

Candidates(eps) == [i \in 1..Len(eps) |-> Candidate(eps[i])]

\* A select_url call: pc, its config_base_url, the candidates get_all_urls
\* gave it (cands), the candidates examined so far with what their breaker
\* showed (checked: state, whether the cooldown had elapsed, whether the
\* candidate was kept), and the value returned.  cands and checked are
\* locals of the call: they are gone when it returns.
IdleSelect ==
    [pc |-> "idle", config |-> <<>>, cands |-> <<>>, checked |-> <<>>,
     result |-> [kind |-> None, url |-> <<>>]]

\* A record_url_result call: pc, its arguments, and the state and the
\* consecutive_failures it has read back from the breaker.
IdleRecord ==
    [pc |-> "idle", url |-> <<>>, success |-> TRUE, latency_ms |-> Nothing,
     state |-> None, consecutive_failures |-> 0]

\* The endpoint lists the database may hold at start: no endpoint, A alone,
\* or A and B; freshly stored (healthy, no failure), with any measured
\* latency, at most one of them primary.
EndpointLists(latencies) ==
    LET fresh(u, l, p) == Endpoint(u, l, TRUE, 0, p) IN
    {<<>>}
    \cup {<<fresh(UrlA, l, p)>> : l \in latencies, p \in BOOLEAN}
    \cup {<<fresh(UrlA, la, pa), fresh(UrlB, lb, pb)>> :
            la \in latencies, lb \in latencies,
            pa \in BOOLEAN, pb \in {FALSE}}
    \cup {<<fresh(UrlA, la, FALSE), fresh(UrlB, lb, TRUE)>> :
            la \in latencies, lb \in latencies}

InitialEndpointLists == EndpointLists(InitialLatencies)

InitRouterState ==
    /\ endpoints \in InitialEndpointLists
    /\ circuit_breakers = <<>>
    /\ sel = IdleSelect
    /\ rec = IdleRecord
    /\ nresults = 0

\* select_url starts: get_all_urls.  A failed database read is returned to
\* the caller as Err(ProxyError::Internal).
SelectStart(config_base_url, ok) ==
    /\ sel.pc \in {"idle", "done"}
    /\ IF ~ok
       THEN sel' = [IdleSelect EXCEPT
                      !.pc = "done", !.config = config_base_url,
                      !.result = [kind |-> "err", url |-> <<>>]]
       ELSE LET all == GetAllUrls(endpoints, config_base_url) IN
            IF all = <<>>
            THEN sel' = [IdleSelect EXCEPT
                           !.pc = "done", !.config = config_base_url,
                           !.result = [kind |-> "ok", url |-> config_base_url]]
            ELSE sel' = [IdleSelect EXCEPT
                           !.pc = "check", !.config = config_base_url,
                           !.cands = Candidates(all)]
    /\ UNCHANGED <<endpoints, circuit_breakers, rec, nresults>>
    /\ UNCHANGED <<switchVars, breakerVars, serviceVars, probeVars, registryVars, hybridVars, formVars, inputVars, recordsVars, cycleVars>>

\* One turn of the filter loop: the breaker of the next candidate is looked
\* up (or created) and asked is_available().
SelectCheck ==
    /\ sel.pc = "check"
    /\ Len(sel.checked) < Len(sel.cands)
    /\ LET e == sel.cands[Len(sel.checked) + 1]
           key == BreakerKey(RouterProvider, e.url)
           breakers == GetOrCreateCircuitBreaker(circuit_breakers, key)
           b == breakers[key]
       IN /\ circuit_breakers' = breakers
          /\ sel' = [sel EXCEPT !.checked = Append(@,
                        [endpoint |-> e, state |-> GetState(b),
                         elapsed |-> CooldownElapsed(b, now),
                         kept |-> KeepCandidate(IsAvailable(b, now))])]
    /\ UNCHANGED <<endpoints, rec, nresults>>
    /\ UNCHANGED <<switchVars, breakerVars, serviceVars, probeVars, registryVars, hybridVars, formVars, inputVars, recordsVars, cycleVars>>

\* The candidates select_url has kept, in order.
RECURSIVE KeptEndpoints(_)
KeptEndpoints(checked) ==
    IF checked = <<>> THEN <<>>
    ELSE LET rest == KeptEndpoints(SubSeq(checked, 1, Len(checked) - 1))
             last == checked[Len(checked)]
         IN IF last.kept THEN Append(rest, last.endpoint) ELSE rest

\* After the loop: degrade to config_base_url, or sort and return the first.
SelectFinish ==
    /\ sel.pc = "check"
    /\ Len(sel.checked) = Len(sel.cands)
    /\ sel' = [sel EXCEPT
                 !.pc = "done", !.cands = <<>>, !.checked = <<>>,
                 !.result = [kind |-> "ok",
                             url |-> ChooseUrl(KeptEndpoints(sel.checked),
                                               sel.cands, sel.config)]]
    /\ UNCHANGED <<endpoints, circuit_breakers, rec, nresults>>
    /\ UNCHANGED <<switchVars, breakerVars, serviceVars, probeVars, registryVars, hybridVars, formVars, inputVars, recordsVars, cycleVars>>

\* record_url_result starts: the breaker of the URL is looked up (or
\* created) and the outcome recorded on it.
RecordStart(url, success, latency_ms) ==
    /\ rec.pc = "idle"
    /\ nresults < MaxUrlResults
    /\ nresults' = nresults + 1
    /\ LET key == BreakerKey(RouterProvider, url)
           breakers == GetOrCreateCircuitBreaker(circuit_breakers, key)
       IN circuit_breakers' =
            [breakers EXCEPT ![key] = RecordOutcome(@, success, now)]
    /\ rec' = [IdleRecord EXCEPT !.pc = "state", !.url = url,
                                 !.success = success, !.latency_ms = latency_ms]
    /\ UNCHANGED <<endpoints, sel>>
    /\ UNCHANGED <<switchVars, breakerVars, serviceVars, probeVars, registryVars, hybridVars, formVars, inputVars, recordsVars, cycleVars>>

\* let breaker_state = breaker.get_state().await;
RecordGetState ==
    /\ rec.pc = "state"
    /\ rec' = [rec EXCEPT
                 !.pc = "stats",
                 !.state = GetState(
                    circuit_breakers[BreakerKey(RouterProvider, rec.url)])]
    /\ UNCHANGED <<endpoints, circuit_breakers, sel, nresults>>
    /\ UNCHANGED <<switchVars, breakerVars, serviceVars, probeVars, registryVars, hybridVars, formVars, inputVars, recordsVars, cycleVars>>

\* let consecutive_failures = breaker.get_stats().await.consecutive_failures;
RecordGetStats ==
    /\ rec.pc = "stats"
    /\ rec' = [rec EXCEPT
                 !.pc = "persist",
                 !.consecutive_failures = GetStats(
                    circuit_breakers[BreakerKey(RouterProvider, rec.url)]
                 ).consecutive_failures]
    /\ UNCHANGED <<endpoints, circuit_breakers, sel, nresults>>
    /\ UNCHANGED <<switchVars, breakerVars, serviceVars, probeVars, registryVars, hybridVars, formVars, inputVars, recordsVars, cycleVars>>

\* let is_healthy = breaker_state != CircuitState::Open;
\* The health record_url_result persists, given the breaker state it has read
\* and the outcome it was called with.
PersistedHealthIsOutcome(breaker_state, success) == success

PersistedHealth(breaker_state, success) == breaker_state # "Open"

\* self.db.update_endpoint_health(...): a failure is logged and dropped.
RecordPersist(ok) ==
    /\ rec.pc = "persist"
    /\ endpoints' =
         IF ok
         THEN DbUpdateEndpointHealth(endpoints, rec.url, rec.latency_ms,
                                     PersistedHealth(rec.state, rec.success),
                                     rec.consecutive_failures)
         ELSE endpoints
    /\ rec' = IdleRecord
    /\ UNCHANGED <<circuit_breakers, sel, nresults>>
    /\ UNCHANGED <<switchVars, breakerVars, serviceVars, probeVars, registryVars, hybridVars, formVars, inputVars, recordsVars, cycleVars>>

\* Time passes: one cooldown period.
CooldownPasses ==
    /\ now + TimeoutSeconds <= MaxTime
    /\ now' = now + TimeoutSeconds
    /\ UNCHANGED <<cb, recorded, avail, holders>>
    /\ UNCHANGED <<switchVars, routerVars, serviceVars, probeVars, registryVars, hybridVars, formVars, inputVars, recordsVars, cycleVars>>

NextRouterStep ==
    \/ CooldownPasses
    \/ \E c \in ConfigUrls, ok \in BOOLEAN : SelectStart(c, ok)
    \/ SelectCheck
    \/ SelectFinish
    \/ \E u \in ResultUrls, success \in BOOLEAN :
            \E l \in ResultLatencies(success) : RecordStart(u, success, l)
    \/ RecordGetState
    \/ RecordGetStats
    \/ \E ok \in BOOLEAN : RecordPersist(ok)

(***************************************************************************)
(* One breaker under all its operations (SpecBreaker)                      *)
(***************************************************************************)

InitBreakerState ==
    /\ now = 0
    /\ cb = NewBreaker(DefaultConfig)
    /\ recorded = <<>>
    /\ avail = Nothing
    /\ holders = 0

\* Time passes.
Tick ==
    /\ now + TickSeconds <= MaxTime
    /\ now' = now + TickSeconds
    /\ avail' = Nothing
    /\ UNCHANGED <<cb, recorded, holders>>
    /\ UNCHANGED <<switchVars, routerVars, serviceVars, probeVars, registryVars, hybridVars, formVars, inputVars, recordsVars, cycleVars>>

\* The router records the outcome of a request sent to the URL.
RecordUrlOutcome(success) ==
    /\ Len(recorded) < MaxRecords
    /\ cb' = RecordOutcome(cb, success, now)
    /\ recorded' = Append(recorded, success)
    /\ avail' = Nothing
    /\ UNCHANGED <<now, holders>>
    /\ UNCHANGED <<switchVars, routerVars, serviceVars, probeVars, registryVars, hybridVars, formVars, inputVars, recordsVars, cycleVars>>

\* A caller asks is_available(), as select_url does.
AskAvailable ==
    /\ avail = Nothing
    /\ avail' = Some(IsAvailable(cb, now))
    /\ UNCHANGED <<now, cb, recorded, holders>>
    /\ UNCHANGED <<switchVars, routerVars, serviceVars, probeVars, registryVars, hybridVars, formVars, inputVars, recordsVars, cycleVars>>

\* A caller asks for admission with the half-open permit.
AcquirePermit ==
    /\ AllowRequest(cb, now)[1]
    /\ cb' = AllowRequest(cb, now)[2]
    /\ cb.state # "Closed"
    /\ holders' = holders + 1
    /\ avail' = Nothing
    /\ UNCHANGED <<now, recorded>>
    /\ UNCHANGED <<switchVars, routerVars, serviceVars, probeVars, registryVars, hybridVars, formVars, inputVars, recordsVars, cycleVars>>

\* The holder of the trial permit records the outcome of its probe.
RecordProbe(success) ==
    /\ holders > 0
    /\ Len(recorded) < MaxRecords
    /\ cb' = IF success THEN RecordSuccess(cb, TRUE)
             ELSE RecordFailure(cb, TRUE, now)
    /\ recorded' = Append(recorded, success)
    /\ holders' = holders - 1
    /\ avail' = Nothing
    /\ UNCHANGED now
    /\ UNCHANGED <<switchVars, routerVars, serviceVars, probeVars, registryVars, hybridVars, formVars, inputVars, recordsVars, cycleVars>>

NextBreakerStep ==
    \/ Tick
    \/ \E success \in BOOLEAN : RecordUrlOutcome(success)
    \/ AskAvailable
    \/ AcquirePermit
    \/ \E success \in BOOLEAN : RecordProbe(success)

(***************************************************************************)
(* UrlLatencyService: start, stop and the background probe loop            *)
(***************************************************************************)
\* for app_type in &["claude", "codex", "gemini"]
ProbeApps == <<"claude", "codex", "gemini">>

\* Database::get_failover_providers(app_type): the providers of the app whose
\* in_failover_queue is set, when the read succeeds.
GetFailoverProviders(app) == <<"p1", "p2">>

ProbeTasks == 1..MaxCalls

\* A task that no start() has spawned yet.
UnspawnedTask ==
    [pc |-> "unspawned", app |-> 0, provider |-> 0, stopped |-> FALSE,
     attempted |-> {}, unread |-> {}, tested |-> {}, failed |-> {}]

\* The task start() spawns: about to await the first tick of its ticker.
SpawnedTask == [UnspawnedTask EXCEPT !.pc = "tick"]

\* A spawned task that has not left its loop.
Alive(t) == t.pc \notin {"unspawned", "ended"}

ServiceIdle ==
    /\ running = FALSE
    /\ ptasks = [i \in ProbeTasks |-> UnspawnedTask]
    /\ calls = 0

InitServiceState == ServiceIdle

\* start(interval_seconds): under the write lock, return if running is set,
\* else set it; then spawn the loop.  Nothing of an earlier task is kept: no
\* handle, no generation.
Start ==
    /\ calls < MaxCalls
    /\ calls' = calls + 1
    /\ IF running
       THEN UNCHANGED <<running, ptasks>>
       ELSE LET i == CHOOSE j \in ProbeTasks :
                        /\ ptasks[j].pc = "unspawned"
                        /\ \A k \in ProbeTasks : k < j => ptasks[k].pc # "unspawned"
            IN
            /\ running' = TRUE
            /\ ptasks' = [ptasks EXCEPT ![i] = SpawnedTask]
    /\ UNCHANGED <<switchVars, breakerVars, routerVars, probeVars, registryVars, hybridVars, formVars, inputVars, recordsVars, cycleVars>>

\* stop(): *running = false.  (stopped notes, for each task alive at that
\* moment, that a stop() has been issued since it was spawned.)
Stop ==
    /\ calls < MaxCalls
    /\ calls' = calls + 1
    /\ running' = FALSE
    /\ ptasks' = [i \in ProbeTasks |->
                    IF Alive(ptasks[i]) THEN [ptasks[i] EXCEPT !.stopped = TRUE]
                    ELSE ptasks[i]]
    /\ UNCHANGED <<switchVars, breakerVars, routerVars, probeVars, registryVars, hybridVars, formVars, inputVars, recordsVars, cycleVars>>

\* ticker.tick().await completes.
TickFires(i) ==
    /\ ptasks[i].pc = "tick"
    /\ ptasks' = [ptasks EXCEPT ![i].pc = "check"]
    /\ UNCHANGED <<running, calls>>
    /\ UNCHANGED <<switchVars, breakerVars, routerVars, probeVars, registryVars, hybridVars, formVars, inputVars, recordsVars, cycleVars>>

\* if !*running.read().await { break; }: what the loop does on the flag it
\* reads after a tick.
AfterTick(flag) == IF flag THEN "probe" ELSE "break"

\* The loop reads the flag and either leaves or begins a probe cycle.
CheckRunning(i) ==
    /\ ptasks[i].pc = "check"
    /\ ptasks' = [ptasks EXCEPT ![i] =
                    IF AfterTick(running) = "break"
                    THEN [@ EXCEPT !.pc = "ended"]
                    ELSE [@ EXCEPT !.pc = "app", !.app = 1, !.provider = 0,
                                   !.attempted = {}, !.unread = {},
                                   !.tested = {}, !.failed = {}]]
    /\ UNCHANGED <<running, calls>>
    /\ UNCHANGED <<switchVars, breakerVars, routerVars, probeVars, registryVars, hybridVars, formVars, inputVars, recordsVars, cycleVars>>

\* if let Err(e) = Self::test_app_endpoints(..).await { log::warn!(..) }: what
\* the loop does after an app, given whether test_app_endpoints returned Ok.
AfterAppPropagates(ok) == IF ok THEN "next" ELSE "break"

AfterApp(ok) == "next"

\* if let Err(e) = Self::test_provider_endpoints(..).await { log::warn!(..) }:
\* what test_app_endpoints does after a provider, given whether
\* test_provider_endpoints returned Ok.
AfterProviderPropagates(ok) == IF ok THEN "next" ELSE "return"

AfterProvider(ok) == "next"

\* The task after test_app_endpoints has returned for its current app.
AppDone(t, ok) ==
    IF AfterApp(ok) = "break" THEN [t EXCEPT !.pc = "ended"]
    ELSE IF t.app < Len(ProbeApps)
         THEN [t EXCEPT !.pc = "app", !.app = t.app + 1, !.provider = 0]
         ELSE [t EXCEPT !.pc = "tick", !.app = 0, !.provider = 0]

\* test_app_endpoints begins: let providers = db.get_failover_providers(..)?;
\* ok tells whether the read succeeds.
TestAppEndpoints(i, ok) ==
    LET t == ptasks[i]
        app == ProbeApps[t.app]
        seen == [t EXCEPT !.attempted = @ \cup {app}]
    IN
    /\ t.pc = "app"
    /\ ptasks' = [ptasks EXCEPT ![i] =
                    IF ~ok
                    THEN AppDone([seen EXCEPT !.unread = @ \cup {app}], FALSE)
                    ELSE IF GetFailoverProviders(app) = <<>>
                    THEN AppDone(seen, TRUE)
                    ELSE [seen EXCEPT !.pc = "provider", !.provider = 1]]
    /\ UNCHANGED <<running, calls>>
    /\ UNCHANGED <<switchVars, breakerVars, routerVars, probeVars, registryVars, hybridVars, formVars, inputVars, recordsVars, cycleVars>>

\* One pass of the loop over the providers: test_provider_endpoints is called
\* for the current provider and returns Ok or Err (ok).  What the call does to
\* the endpoints is the subject of the probe actions below.
TestProviderEndpoints(i, ok) ==
    LET t == ptasks[i]
        app == ProbeApps[t.app]
        providers == GetFailoverProviders(app)
        pair == <<app, providers[t.provider]>>
        seen == [t EXCEPT !.tested = @ \cup {pair},
                          !.failed = IF ok THEN @ ELSE @ \cup {pair}]
    IN
    /\ t.pc = "provider"
    /\ ptasks' = [ptasks EXCEPT ![i] =
                    IF AfterProvider(ok) = "return" THEN AppDone(seen, FALSE)
                    ELSE IF t.provider < Len(providers)
                    THEN [seen EXCEPT !.provider = t.provider + 1]
                    ELSE AppDone(seen, TRUE)]
    /\ UNCHANGED <<running, calls>>
    /\ UNCHANGED <<switchVars, breakerVars, routerVars, probeVars, registryVars, hybridVars, formVars, inputVars, recordsVars, cycleVars>>

NextServiceStep ==
    \/ Start
    \/ Stop
    \/ \E i \in ProbeTasks : TickFires(i)
    \/ \E i \in ProbeTasks : CheckRunning(i)
    \/ \E i \in ProbeTasks, ok \in BOOLEAN : TestAppEndpoints(i, ok)
    \/ \E i \in ProbeTasks, ok \in BOOLEAN : TestProviderEndpoints(i, ok)

(***************************************************************************)
(* UrlLatencyService: one provider's probe cycle (test_provider_endpoints) *)
(***************************************************************************)
\* Latencies found persisted before a cycle, and latencies a probe measures.
PersistedLatencies == {Nothing, Some(80), Some(200)}

\* What SpeedtestService::test_endpoints reports for one URL: a latency and
\* no error, or an error and no latency.
ProbeOutcomes ==
    {[latency |-> Some(80), error |-> FALSE],
     [latency |-> Some(200), error |-> FALSE],
     [latency |-> Nothing, error |-> TRUE]}

\* SpeedtestService::test_endpoints(urls, Some(8)): one result per URL, in
\* the order of urls.
TestEndpoints(urls) ==
    {[i \in 1..Len(urls) |->
        [url |-> urls[i], latency |-> f[i].latency, error |-> f[i].error]] :
            f \in [1..Len(urls) -> ProbeOutcomes]}

\* let is_healthy = result.error.is_none() && result.latency.is_some();
IsHealthy(result) == ~result.error /\ result.latency # Nothing

\* if is_healthy { 0 } else { endpoint.consecutive_failures + 1 }
ConsecutiveFailures(is_healthy, endpoint) ==
    IF is_healthy THEN 0 ELSE endpoint.consecutive_failures + 1

\* Byte-wise order of two URLs.
RECURSIVE UrlLess(_, _)
UrlLess(a, b) ==
    IF b = <<>> THEN FALSE
    ELSE IF a = <<>> THEN TRUE
    ELSE IF CharCode(Head(a)) # CharCode(Head(b))
         THEN CharCode(Head(a)) < CharCode(Head(b))
         ELSE UrlLess(Tail(a), Tail(b))

\* Endpoint a is a better primary than endpoint b: lower latency, the lower
\* URL on equal latencies.
Better(a, b) ==
    \/ a.latency_ms[1] < b.latency_ms[1]
    \/ a.latency_ms[1] = b.latency_ms[1] /\ UrlLess(a.url, b.url)

\* Database::get_best_endpoint_url: the healthy endpoint of lowest measured
\* latency, if there is one.
GetBestEndpointUrl(eps) ==
    LET qualifying ==
            {i \in 1..Len(eps) : eps[i].is_healthy /\ eps[i].latency_ms # Nothing}
    IN  IF qualifying = {} THEN Nothing
        ELSE LET best == CHOOSE i \in qualifying :
                            \A j \in qualifying \ {i} : Better(eps[i], eps[j])
             IN  Some(eps[best].url)

\* Database::set_primary_endpoint: marks url primary and clears the others.
SetPrimaryEndpoint(eps, url) ==
    [i \in 1..Len(eps) |-> [eps[i] EXCEPT !.is_primary = (eps[i].url = url)]]

\* let is_healthy = breaker_state != CircuitState::Open; (url_router.rs)
\* The URLs whose persisted is_healthy is not what record_url_result would
\* persist for the state their breaker is in.
Contradicting(eps, breakers) ==
    {eps[i].url : i \in {j \in 1..Len(eps) :
        LET key == BreakerKey(RouterProvider, eps[j].url) IN
        /\ key \in DOMAIN breakers
        /\ eps[j].is_healthy # (GetState(breakers[key]) # "Open")}}

\* A test_provider_endpoints call: pc, the endpoints read at its start
\* (snapshot), the probe results and the index of the one in hand, what its
\* record_url_result call has read from the breaker, the URL
\* get_best_endpoint_url gave, and the value returned.  snapshot and results
\* are kept after the return for the properties to refer to; stale holds the
\* URLs that have been contradicting since the call began, and dropped tells
\* whether a write of its record_url_result calls has failed.
IdleProbe ==
    [pc |-> "idle", snapshot |-> <<>>, results |-> <<>>, idx |-> 0,
     state |-> None, consecutive_failures |-> 0, best |-> Nothing, ret |-> None,
     stale |-> {}, dropped |-> FALSE]

\* The call over the database and the breakers as a step leaves them.
Tracked(p, eps, breakers) ==
    [p EXCEPT !.stale = @ \cap Contradicting(eps, breakers)]

ProbeIdle ==
    /\ probe = IdleProbe
    /\ ncycles = 0

\* The call returns.
ProbeReturns(p, ret) == [p EXCEPT !.pc = "done", !.ret = ret]

\* let endpoints = db.get_provider_endpoints_with_health(..)?;
\* if endpoints.is_empty() { return Ok(()); }
ProbeStart(ok) ==
    /\ probe.pc \in {"idle", "done"}
    /\ ncycles < MaxCycles
    /\ ncycles' = ncycles + 1
    /\ probe' = IF ~ok THEN ProbeReturns(IdleProbe, "err")
                ELSE IF endpoints = <<>> THEN ProbeReturns(IdleProbe, "ok")
                ELSE [IdleProbe EXCEPT
                        !.pc = "test", !.snapshot = endpoints,
                        !.stale = Contradicting(endpoints, circuit_breakers)]
    /\ UNCHANGED <<switchVars, breakerVars, routerVars, serviceVars, registryVars, hybridVars, formVars, inputVars, recordsVars, cycleVars>>

\* let results = SpeedtestService::test_endpoints(urls, Some(8)).await?;
ProbeTest(results, ok) ==
    /\ probe.pc = "test"
    /\ probe' = IF ~ok THEN ProbeReturns(probe, "err")
                ELSE [probe EXCEPT !.pc = "update", !.results = results, !.idx = 1]
    /\ UNCHANGED ncycles
    /\ UNCHANGED <<switchVars, breakerVars, routerVars, serviceVars, registryVars, hybridVars, formVars, inputVars, recordsVars, cycleVars>>

\* The endpoint of the snapshot a result is about.
SnapshotEndpoint(p) ==
    LET r == p.results[p.idx] IN
    {p.snapshot[i] : i \in {j \in 1..Len(p.snapshot) : p.snapshot[j].url = r.url}}

\* (A loop that returns Ok after its last result, update_primary_endpoint
\* left out.)
NextResultSkipsPrimary(p) ==
    IF p.idx < Len(p.results) THEN [p EXCEPT !.pc = "update", !.idx = p.idx + 1]
    ELSE [p EXCEPT !.pc = "done", !.ret = "ok"]

\* The call after it is done with the result in hand.
NextResult(p) ==
    IF p.idx < Len(p.results) THEN [p EXCEPT !.pc = "update", !.idx = p.idx + 1]
    ELSE [p EXCEPT !.pc = "best"]

\* db.update_endpoint_health(app_type, provider_id, &result.url, latency_ms,
\*                           is_healthy, consecutive_failures)?;
ProbeUpdateHealth(ok) ==
    LET r == probe.results[probe.idx] IN
    /\ probe.pc = "update"
    /\ IF SnapshotEndpoint(probe) = {}
       THEN /\ probe' = NextResult(probe)
            /\ UNCHANGED endpoints
       ELSE IF ~ok
       THEN /\ probe' = ProbeReturns(probe, "err")
            /\ UNCHANGED endpoints
       ELSE LET endpoint == CHOOSE e \in SnapshotEndpoint(probe) : TRUE
                updated == DbUpdateEndpointHealth(endpoints, r.url, r.latency,
                                IsHealthy(r),
                                ConsecutiveFailures(IsHealthy(r), endpoint))
            IN
            /\ endpoints' = updated
            /\ probe' = Tracked([probe EXCEPT !.pc = "record"],
                                updated, circuit_breakers)
    /\ UNCHANGED <<circuit_breakers, sel, rec, nresults, ncycles>>
    /\ UNCHANGED <<switchVars, breakerVars, serviceVars, registryVars, hybridVars, formVars, inputVars, recordsVars, cycleVars>>

\* url_router.record_url_result(provider_id, app_type, &result.url,
\*                              is_healthy, latency_ms).await: the outcome is
\* recorded on the breaker of the URL,
ProbeRecordResult ==
    LET r == probe.results[probe.idx]
        key == BreakerKey(RouterProvider, r.url)
        breakers == GetOrCreateCircuitBreaker(circuit_breakers, key)
        recorded_on == [breakers EXCEPT ![key] = RecordOutcome(@, IsHealthy(r), now)]
    IN
    /\ probe.pc = "record"
    /\ circuit_breakers' = recorded_on
    /\ probe' = Tracked([probe EXCEPT !.pc = "state"], endpoints, recorded_on)
    /\ UNCHANGED <<endpoints, sel, rec, nresults, ncycles>>
    /\ UNCHANGED <<switchVars, breakerVars, serviceVars, registryVars, hybridVars, formVars, inputVars, recordsVars, cycleVars>>

\* the state of the breaker is read,
ProbeGetState ==
    LET r == probe.results[probe.idx] IN
    /\ probe.pc = "state"
    /\ probe' = [probe EXCEPT
                   !.pc = "stats",
                   !.state = GetState(circuit_breakers[BreakerKey(RouterProvider, r.url)])]
    /\ UNCHANGED ncycles
    /\ UNCHANGED <<switchVars, breakerVars, routerVars, serviceVars, registryVars, hybridVars, formVars, inputVars, recordsVars, cycleVars>>

\* its count of consecutive failures is read,
ProbeGetStats ==
    LET r == probe.results[probe.idx] IN
    /\ probe.pc = "stats"
    /\ probe' = [probe EXCEPT
                   !.pc = "persist",
                   !.consecutive_failures = GetStats(
                        circuit_breakers[BreakerKey(RouterProvider, r.url)]
                   ).consecutive_failures]
    /\ UNCHANGED ncycles
    /\ UNCHANGED <<switchVars, breakerVars, routerVars, serviceVars, registryVars, hybridVars, formVars, inputVars, recordsVars, cycleVars>>

\* and the health of the endpoint is persisted once more, from what was read
\* (a failure of this write is logged and dropped).
ProbePersist(ok) ==
    LET r == probe.results[probe.idx]
        updated ==
            IF ok
            THEN DbUpdateEndpointHealth(endpoints, r.url, r.latency,
                                        PersistedHealth(probe.state, IsHealthy(r)),
                                        probe.consecutive_failures)
            ELSE endpoints
    IN
    /\ probe.pc = "persist"
    /\ endpoints' = updated
    /\ probe' = Tracked(NextResult([probe EXCEPT !.dropped = @ \/ ~ok]),
                        updated, circuit_breakers)
    /\ UNCHANGED <<circuit_breakers, sel, rec, nresults, ncycles>>
    /\ UNCHANGED <<switchVars, breakerVars, serviceVars, registryVars, hybridVars, formVars, inputVars, recordsVars, cycleVars>>

\* update_primary_endpoint: if let Some(best_url) = db.get_best_endpoint_url(..)?
ProbeGetBest(ok) ==
    /\ probe.pc = "best"
    /\ probe' = IF ~ok THEN ProbeReturns(probe, "err")
                ELSE IF GetBestEndpointUrl(endpoints) = Nothing
                THEN ProbeReturns(probe, "ok")
                ELSE [probe EXCEPT !.pc = "set", !.best = GetBestEndpointUrl(endpoints)]
    /\ UNCHANGED ncycles
    /\ UNCHANGED <<switchVars, breakerVars, routerVars, serviceVars, registryVars, hybridVars, formVars, inputVars, recordsVars, cycleVars>>

\* (set_primary_endpoint called with the first probed URL, not best_url.)
ProbeSetPrimaryFirstUrl(ok) ==
    /\ probe.pc = "set"
    /\ endpoints' = IF ok THEN SetPrimaryEndpoint(endpoints, probe.results[1].url)
                    ELSE endpoints
    /\ probe' = ProbeReturns(probe, IF ok THEN "ok" ELSE "err")
    /\ UNCHANGED <<circuit_breakers, sel, rec, nresults, ncycles>>
    /\ UNCHANGED <<switchVars, breakerVars, serviceVars, registryVars, hybridVars, formVars, inputVars, recordsVars, cycleVars>>

\* db.set_primary_endpoint(app_type, provider_id, &best_url)?;
ProbeSetPrimary(ok) ==
    /\ probe.pc = "set"
    /\ endpoints' = IF ok THEN SetPrimaryEndpoint(endpoints, probe.best[1])
                    ELSE endpoints
    /\ probe' = ProbeReturns(probe, IF ok THEN "ok" ELSE "err")
    /\ UNCHANGED <<circuit_breakers, sel, rec, nresults, ncycles>>
    /\ UNCHANGED <<switchVars, breakerVars, serviceVars, registryVars, hybridVars, formVars, inputVars, recordsVars, cycleVars>>

NextProbeStep ==
    \/ \E ok \in BOOLEAN : ProbeStart(ok)
    \/ \E ok \in BOOLEAN :
        \E results \in TestEndpoints([i \in 1..Len(probe.snapshot) |->
                                        probe.snapshot[i].url]) :
            ProbeTest(results, ok)
    \/ \E ok \in BOOLEAN : ProbeUpdateHealth(ok)
    \/ ProbeRecordResult
    \/ ProbeGetState
    \/ ProbeGetStats
    \/ \E ok \in BOOLEAN : ProbePersist(ok)
    \/ \E ok \in BOOLEAN : ProbeGetBest(ok)
    \/ \E ok \in BOOLEAN : ProbeSetPrimary(ok)

(***************************************************************************)
(* UrlRouter::get_or_create_circuit_breaker, lock by lock                  *)
(***************************************************************************)
\* The callers of get_or_create_circuit_breaker: select_url and
\* record_url_result calls running side by side.
Callers == 1..NTasks

\* The keys the callers ask for.
RegistryKeys == {BreakerKey(RouterProvider, u) : u \in EndpointUrls}

\* A caller: pc, the key it asks for, the breaker it was given (breakers are
\* told apart by the number of their creation, 0 is none), and whether its
\* lookup under the read lock found nothing.
IdleCaller == [pc |-> "idle", key |-> <<>>, breaker |-> 0, missed |-> FALSE]

RegistryIdle ==
    /\ registry = <<>>
    /\ callers = [c \in Callers |-> IdleCaller]
    /\ created = {}
    /\ outcomes = <<>>
    /\ made = [k \in RegistryKeys |-> 0]

\* let breakers = self.circuit_breakers.read().await;
\* if let Some(breaker) = breakers.get(&key) { return breaker.clone(); }
ReadLocked(c, key) ==
    /\ callers[c].pc = "idle"
    /\ made[key] + Cardinality({d \in Callers : callers[d].pc # "idle"
                                                /\ callers[d].key = key}) < MaxRecords
    /\ callers' = [callers EXCEPT ![c] =
                    IF key \in DOMAIN registry
                    THEN [IdleCaller EXCEPT !.pc = "hold", !.key = key,
                                            !.breaker = registry[key]]
                    ELSE [IdleCaller EXCEPT !.pc = "write", !.key = key,
                                            !.missed = TRUE]]
    /\ UNCHANGED <<registry, created, outcomes, made>>
    /\ UNCHANGED <<switchVars, breakerVars, routerVars, serviceVars, probeVars, hybridVars, formVars, inputVars, recordsVars, cycleVars>>

\* The map after the block under the write lock, given the number of a new
\* breaker: the double check, then the insert.
InsertWithoutDoubleCheck(breakers, key, new) ==
    [k \in DOMAIN breakers \cup {key} |-> IF k = key THEN new ELSE breakers[k]]

InsertUnlessPresent(breakers, key, new) ==
    IF key \in DOMAIN breakers THEN breakers
    ELSE [k \in DOMAIN breakers \cup {key} |-> IF k = key THEN new ELSE breakers[k]]

\* let mut breakers = self.circuit_breakers.write().await; ... breaker
WriteLocked(c) ==
    LET key == callers[c].key
        new == Cardinality(created) + 1
        breakers == InsertUnlessPresent(registry, key, new)
    IN
    /\ callers[c].pc = "write"
    /\ registry' = breakers
    /\ created' = IF breakers[key] = new THEN created \cup {<<key, new>>}
                  ELSE created
    /\ outcomes' = IF breakers[key] = new
                   THEN [b \in DOMAIN outcomes \cup {new} |->
                            IF b = new THEN 0 ELSE outcomes[b]]
                   ELSE outcomes
    /\ callers' = [callers EXCEPT ![c].pc = "hold", ![c].breaker = breakers[key]]
    /\ UNCHANGED made
    /\ UNCHANGED <<switchVars, breakerVars, routerVars, serviceVars, probeVars, hybridVars, formVars, inputVars, recordsVars, cycleVars>>

\* The caller uses the breaker it was given (record_success, record_failure)
\* and its call ends.
UseBreaker(c) ==
    /\ callers[c].pc = "hold"
    /\ outcomes' = [outcomes EXCEPT ![callers[c].breaker] = @ + 1]
    /\ made' = [made EXCEPT ![callers[c].key] = @ + 1]
    /\ callers' = [callers EXCEPT ![c] = IdleCaller]
    /\ UNCHANGED <<registry, created>>
    /\ UNCHANGED <<switchVars, breakerVars, routerVars, serviceVars, probeVars, hybridVars, formVars, inputVars, recordsVars, cycleVars>>

NextRegistryStep ==
    \/ \E c \in Callers, key \in RegistryKeys : ReadLocked(c, key)
    \/ \E c \in Callers : WriteLocked(c)
    \/ \E c \in Callers : UseBreaker(c)

(***************************************************************************)
(* UrlRouter: hybrid mode queries (proxy/url_router.rs 224-242)            *)
(***************************************************************************)

\* HybridModeConfig values a store can hold for an app.
HybridModeConfigs ==
    [enabled : BOOLEAN,
     latency_test_interval : {60, 300},
     url_circuit_failure_threshold : {3, 5}]

\* The apps whose configuration is queried.
HybridApps == {"claude", "codex"}

\* Database::get_hybrid_mode_config: Ok(stored configuration) or Err.
GetHybridModeConfig(stored, app_type, ok) ==
    IF ok THEN Some(stored[app_type]) ELSE Nothing

\* A fallback that would switch hybrid mode off when the read fails.
GetHybridConfigDisabledOnError(read) ==
    IF read # Nothing
    THEN read[1]
    ELSE [enabled |-> FALSE,
          latency_test_interval |-> 300,
          url_circuit_failure_threshold |-> 3]

\* get_hybrid_config: the match on the result of the store read.
GetHybridConfig(read) ==
    IF read # Nothing
    THEN read[1]
    ELSE [enabled |-> TRUE,
          latency_test_interval |-> 300,
          url_circuit_failure_threshold |-> 3]

\* is_hybrid_mode_enabled
IsHybridModeEnabled(read) == GetHybridConfig(read).enabled

\* No hybrid query has been made.
NoHybridCall == [call |-> None, app |-> None, ok |-> TRUE,
                 config |-> Nothing, enabled |-> Nothing]

HybridIdle ==
    hybrid = [stored |-> [a \in HybridApps |->
                            [enabled |-> TRUE,
                             latency_test_interval |-> 300,
                             url_circuit_failure_threshold |-> 3]],
              last |-> NoHybridCall]

\* A caller asks for the configuration of app_type; ok is whether the store
\* read succeeds.
CallGetHybridConfig(app_type, ok) ==
    /\ hybrid' = [hybrid EXCEPT !.last =
           [call |-> "get_hybrid_config", app |-> app_type, ok |-> ok,
            config |-> Some(GetHybridConfig(
                          GetHybridModeConfig(hybrid.stored, app_type, ok))),
            enabled |-> Nothing]]
    /\ UNCHANGED <<switchVars, breakerVars, routerVars, serviceVars,
                   probeVars, registryVars, formVars, inputVars, recordsVars, cycleVars>>

\* A caller asks whether hybrid mode is on for app_type.
CallIsHybridModeEnabled(app_type, ok) ==
    /\ hybrid' = [hybrid EXCEPT !.last =
           [call |-> "is_hybrid_mode_enabled", app |-> app_type, ok |-> ok,
            config |-> Nothing,
            enabled |-> Some(IsHybridModeEnabled(
                          GetHybridModeConfig(hybrid.stored, app_type, ok)))]]
    /\ UNCHANGED <<switchVars, breakerVars, routerVars, serviceVars,
                   probeVars, registryVars, formVars, inputVars, recordsVars, cycleVars>>

(***************************************************************************)
(* ProviderForm: URL normalization and the multi-URL input                 *)
(* (tui/views/provider_form.rs 154-210, 303-307, 543-545)                  *)
(***************************************************************************)

\* The characters a typed base URL field is made of: two letters, '/', the
\* delimiters ',' and ';', and the blank as the whitespace character.
FormChars == {"a", "b", "/", ",", ";", " "}

\* Every string of up to n characters.
RECURSIVE FormStrings(_)
FormStrings(n) ==
    IF n = 0 THEN {<<>>}
    ELSE LET shorter == FormStrings(n - 1) IN
         shorter \cup {Append(s, c) : s \in {t \in shorter : Len(t) = n - 1},
                                       c \in FormChars}

\* char::is_whitespace
IsWhitespace(c) == c = " "

\* The split predicate: |c| c == ',' || c == ';' || c.is_whitespace()
IsSeparator(c) == c = "," \/ c = ";" \/ IsWhitespace(c)

\* str::split: the parts between separators, empty parts included.
RECURSIVE SplitFrom(_, _, _, _)
SplitFrom(s, i, part, parts) ==
    IF i > Len(s) THEN Append(parts, part)
    ELSE IF IsSeparator(s[i])
         THEN SplitFrom(s, i + 1, <<>>, Append(parts, part))
         ELSE SplitFrom(s, i + 1, Append(part, s[i]), parts)

Split(s) == SplitFrom(s, 1, <<>>, <<>>)

\* str::trim_start
RECURSIVE TrimStart(_)
TrimStart(s) ==
    IF Len(s) > 0 /\ IsWhitespace(s[1])
    THEN TrimStart(SubSeq(s, 2, Len(s)))
    ELSE s

\* str::trim_end
RECURSIVE TrimEnd(_)
TrimEnd(s) ==
    IF Len(s) > 0 /\ IsWhitespace(s[Len(s)])
    THEN TrimEnd(SubSeq(s, 1, Len(s) - 1))
    ELSE s

\* str::trim
Trim(s) == TrimEnd(TrimStart(s))

\* normalize_url: value.trim().trim_end_matches('/').to_string()
NormalizeUrl(value) == TrimEndSlash(Trim(value))

\* Vec::contains
Contains(urls, url) == \E i \in 1..Len(urls) : urls[i] = url

\* A loop body that pushes every non-empty URL, seen before or not.
PushUrlKeepsDuplicates(urls, url) ==
    IF url # <<>> THEN Append(urls, url) ELSE urls

\* if !url.is_empty() && !urls.contains(&url) { urls.push(url); }
PushUrl(urls, url) ==
    IF url # <<>> /\ ~Contains(urls, url) THEN Append(urls, url) ELSE urls

\* The loop of parse_base_urls over the parts of the input.
RECURSIVE ParseParts(_, _)
ParseParts(parts, urls) ==
    IF parts = <<>> THEN urls
    ELSE ParseParts(Tail(parts), PushUrl(urls, NormalizeUrl(Head(parts))))

\* parse_base_urls
ParseBaseUrls(input) == ParseParts(Split(input), <<>>)

\* sync_custom_endpoints with every store call succeeding: the stored URLs
\* whose normal form is not wanted are removed under their normal form, the
\* wanted URLs that no stored URL normalizes to are added.
SyncCustomEndpoints(stored, base_urls) ==
    LET desired  == {NormalizeUrl(base_urls[i]) : i \in 1..Len(base_urls)}
                       \ {<<>>}
        existing == {NormalizeUrl(url) : url \in stored}
        kept     == stored \ (existing \ desired)
    IN  kept \cup (desired \ existing)

\* The form before anything is parsed.
NewForm(input, stored) ==
    [input |-> input, stored |-> stored, urls |-> Nothing, synced |-> FALSE,
     once |-> Nothing, twice |-> Nothing]

FormIdle == form = NewForm(<<>>, {})

\* submit, line 303: the base URL field is parsed.
Parse ==
    /\ form.urls = Nothing
    /\ form' = [form EXCEPT !.urls = Some(ParseBaseUrls(form.input))]
    /\ UNCHANGED <<switchVars, breakerVars, routerVars, serviceVars, probeVars, registryVars, hybridVars, inputVars, recordsVars, cycleVars>>

\* do_add / do_edit: a non-empty list of parsed URLs is synced to the store.
Sync ==
    /\ form.urls # Nothing
    /\ form.urls[1] # <<>>
    /\ ~form.synced
    /\ form' = [form EXCEPT
                  !.stored = SyncCustomEndpoints(form.stored, form.urls[1]),
                  !.synced = TRUE]
    /\ UNCHANGED <<switchVars, breakerVars, routerVars, serviceVars, probeVars, registryVars, hybridVars, inputVars, recordsVars, cycleVars>>

\* normalize_url is applied to the text.
Normalize ==
    /\ form.once = Nothing
    /\ form' = [form EXCEPT !.once = Some(NormalizeUrl(form.input))]
    /\ UNCHANGED <<switchVars, breakerVars, routerVars, serviceVars, probeVars, registryVars, hybridVars, inputVars, recordsVars, cycleVars>>

\* normalize_url is applied to its own result (open_edit normalizes what an
\* earlier save normalized).
NormalizeAgain ==
    /\ form.once # Nothing
    /\ form.twice = Nothing
    /\ form' = [form EXCEPT !.twice = Some(NormalizeUrl(form.once[1]))]
    /\ UNCHANGED <<switchVars, breakerVars, routerVars, serviceVars, probeVars, registryVars, hybridVars, inputVars, recordsVars, cycleVars>>

(***************************************************************************)
(* TextInput (tui/widgets/input.rs) and the popup that edits with it       *)
(* (tui/views/provider_form.rs 247-291, 513-540)                           *)
(***************************************************************************)

\* The characters typed: one of one byte, one of two and one of three bytes
\* in UTF-8.
InputChars == {"a", "eacute", "euro"}

\* char::len_utf8
Utf8Len(c) == CASE c = "a" -> 1 [] c = "eacute" -> 2 [] OTHER -> 3

\* String::len: the length in bytes.
RECURSIVE ByteLen(_)
ByteLen(value) ==
    IF value = <<>> THEN 0
    ELSE Utf8Len(Head(value)) + ByteLen(Tail(value))

\* str::is_char_boundary
IsCharBoundary(value, idx) ==
    \E k \in 0..Len(value) : ByteLen(SubSeq(value, 1, k)) = idx

\* The number of characters that end at or before the byte offset idx.
CharsBefore(value, idx) ==
    CHOOSE k \in 0..Len(value) : ByteLen(SubSeq(value, 1, k)) = idx

\* String::insert panics unless idx is on a character boundary.
StringInsertPanics(value, idx) == ~IsCharBoundary(value, idx)

\* String::insert at a character boundary.
StringInsert(value, idx, c) ==
    LET k == CharsBefore(value, idx) IN
    SubSeq(value, 1, k) \o <<c>> \o SubSeq(value, k + 1, Len(value))

\* String::remove panics unless a character starts at idx.
StringRemovePanics(value, idx) ==
    ~IsCharBoundary(value, idx) \/ idx >= ByteLen(value)

\* String::remove of the character that starts at idx.
StringRemove(value, idx) ==
    LET k == CharsBefore(value, idx) IN
    SubSeq(value, 1, k) \o SubSeq(value, k + 2, Len(value))

\* Every value of up to n characters.
RECURSIVE InputValues(_)
InputValues(n) ==
    IF n = 0 THEN {<<>>}
    ELSE LET shorter == InputValues(n - 1) IN
         shorter \cup {Append(s, c) : s \in {t \in shorter : Len(t) = n - 1},
                                       c \in InputChars}

\* TextInput::with_value: the cursor is the byte length of the value.
\* TextInput::new is with_value of the empty string.
WithValue(value) ==
    [value |-> value, cursor |-> ByteLen(value), panicked |-> FALSE]

InputIdle == popup_input = WithValue(<<>>)

\* TextInput::insert
Insert(c) ==
    /\ ~popup_input.panicked
    /\ Len(popup_input.value) < MaxValueLen
    /\ popup_input' =
         IF StringInsertPanics(popup_input.value, popup_input.cursor)
         THEN [popup_input EXCEPT !.panicked = TRUE]
         ELSE [popup_input EXCEPT
                 !.value = StringInsert(popup_input.value, popup_input.cursor, c),
                 !.cursor = popup_input.cursor + 1]
    /\ UNCHANGED <<switchVars, breakerVars, routerVars, serviceVars, probeVars, registryVars, hybridVars, formVars, recordsVars, cycleVars>>

\* TextInput::backspace
Backspace ==
    /\ ~popup_input.panicked
    /\ popup_input' =
         IF popup_input.cursor > 0
         THEN IF StringRemovePanics(popup_input.value, popup_input.cursor - 1)
              THEN [popup_input EXCEPT !.cursor = popup_input.cursor - 1,
                                 !.panicked = TRUE]
              ELSE [popup_input EXCEPT
                      !.cursor = popup_input.cursor - 1,
                      !.value = StringRemove(popup_input.value, popup_input.cursor - 1)]
         ELSE popup_input
    /\ UNCHANGED <<switchVars, breakerVars, routerVars, serviceVars, probeVars, registryVars, hybridVars, formVars, recordsVars, cycleVars>>

\* TextInput::delete
Delete ==
    /\ ~popup_input.panicked
    /\ popup_input' =
         IF popup_input.cursor < ByteLen(popup_input.value)
         THEN IF StringRemovePanics(popup_input.value, popup_input.cursor)
              THEN [popup_input EXCEPT !.panicked = TRUE]
              ELSE [popup_input EXCEPT
                      !.value = StringRemove(popup_input.value, popup_input.cursor)]
         ELSE popup_input
    /\ UNCHANGED <<switchVars, breakerVars, routerVars, serviceVars, probeVars, registryVars, hybridVars, formVars, recordsVars, cycleVars>>

\* TextInput::move_left
MoveLeft ==
    /\ ~popup_input.panicked
    /\ popup_input' = IF popup_input.cursor > 0
                THEN [popup_input EXCEPT !.cursor = popup_input.cursor - 1]
                ELSE popup_input
    /\ UNCHANGED <<switchVars, breakerVars, routerVars, serviceVars, probeVars, registryVars, hybridVars, formVars, recordsVars, cycleVars>>

\* TextInput::move_right
MoveRight ==
    /\ ~popup_input.panicked
    /\ popup_input' = IF popup_input.cursor < ByteLen(popup_input.value)
                THEN [popup_input EXCEPT !.cursor = popup_input.cursor + 1]
                ELSE popup_input
    /\ UNCHANGED <<switchVars, breakerVars, routerVars, serviceVars, probeVars, registryVars, hybridVars, formVars, recordsVars, cycleVars>>

\* TextInput::home
Home ==
    /\ ~popup_input.panicked
    /\ popup_input' = [popup_input EXCEPT !.cursor = 0]
    /\ UNCHANGED <<switchVars, breakerVars, routerVars, serviceVars, probeVars, registryVars, hybridVars, formVars, recordsVars, cycleVars>>

\* TextInput::end
End ==
    /\ ~popup_input.panicked
    /\ popup_input' = [popup_input EXCEPT !.cursor = ByteLen(popup_input.value)]
    /\ UNCHANGED <<switchVars, breakerVars, routerVars, serviceVars, probeVars, registryVars, hybridVars, formVars, recordsVars, cycleVars>>

\* TextInput::clear
Clear ==
    /\ ~popup_input.panicked
    /\ popup_input' = [popup_input EXCEPT !.value = <<>>, !.cursor = 0]
    /\ UNCHANGED <<switchVars, breakerVars, routerVars, serviceVars, probeVars, registryVars, hybridVars, formVars, recordsVars, cycleVars>>

\* render_popup: format!("{}│{}", &value[..cursor], &value[cursor..]); the
\* slices panic unless the cursor is on a character boundary.
RenderPopup ==
    /\ ~popup_input.panicked
    /\ popup_input' = IF IsCharBoundary(popup_input.value, popup_input.cursor)
                THEN popup_input
                ELSE [popup_input EXCEPT !.panicked = TRUE]
    /\ UNCHANGED <<switchVars, breakerVars, routerVars, serviceVars, probeVars, registryVars, hybridVars, formVars, recordsVars, cycleVars>>

(***************************************************************************)
(* UrlRouter: concurrent record_url_result calls for one URL               *)
(* (proxy/url_router.rs 151-184)                                           *)
(***************************************************************************)

\* A record_url_result call for UrlA: where it stands (pc), the outcome it
\* reports, the state and the failure count it has read from the breaker,
\* and whether its update_endpoint_health went through.
IdleResult ==
    [pc |-> "idle", success |-> TRUE, state |-> None,
     consecutive_failures |-> 0, wrote |-> FALSE]

RecordsIdle == recs = [c \in Tasks |-> IdleResult]

\* The call starts: the breaker of the URL is looked up and the outcome is
\* recorded on it (lines 159-167).
ConcurrentRecordStart(c, success) ==
    /\ recs[c].pc = "idle"
    /\ LET key == BreakerKey(RouterProvider, UrlA)
           breakers == GetOrCreateCircuitBreaker(circuit_breakers, key)
       IN circuit_breakers' =
            [breakers EXCEPT ![key] = RecordOutcome(@, success, now)]
    /\ recs' = [recs EXCEPT ![c] =
                  [IdleResult EXCEPT !.pc = "state", !.success = success]]
    /\ UNCHANGED <<endpoints, sel, rec, nresults>>
    /\ UNCHANGED <<switchVars, breakerVars, serviceVars, probeVars, registryVars, hybridVars, formVars, inputVars, cycleVars>>

\* let breaker_state = breaker.get_state().await;
ConcurrentRecordGetState(c) ==
    /\ recs[c].pc = "state"
    /\ recs' = [recs EXCEPT
                  ![c].pc = "stats",
                  ![c].state = GetState(
                      circuit_breakers[BreakerKey(RouterProvider, UrlA)])]
    /\ UNCHANGED <<switchVars, breakerVars, routerVars, serviceVars, probeVars, registryVars, hybridVars, formVars, inputVars, cycleVars>>

\* let consecutive_failures = breaker.get_stats().await.consecutive_failures;
ConcurrentRecordGetStats(c) ==
    /\ recs[c].pc = "stats"
    /\ recs' = [recs EXCEPT
                  ![c].pc = "persist",
                  ![c].consecutive_failures = GetStats(
                      circuit_breakers[BreakerKey(RouterProvider, UrlA)]
                  ).consecutive_failures]
    /\ UNCHANGED <<switchVars, breakerVars, routerVars, serviceVars, probeVars, registryVars, hybridVars, formVars, inputVars, cycleVars>>

\* self.db.update_endpoint_health(...): a failure is logged and dropped.
ConcurrentRecordPersist(c, ok) ==
    /\ recs[c].pc = "persist"
    /\ endpoints' =
         IF ok
         THEN DbUpdateEndpointHealth(endpoints, UrlA, Nothing,
                  PersistedHealth(recs[c].state, recs[c].success),
                  recs[c].consecutive_failures)
         ELSE endpoints
    /\ recs' = [recs EXCEPT ![c].pc = "done", ![c].wrote = ok]
    /\ UNCHANGED <<circuit_breakers, sel, rec, nresults>>
    /\ UNCHANGED <<switchVars, breakerVars, serviceVars, probeVars, registryVars, hybridVars, formVars, inputVars, cycleVars>>

(***************************************************************************)
(* UrlLatencyService: one probe cycle over the providers of an app         *)
(* (services/url_latency.rs 82-184)                                        *)
(***************************************************************************)

\* The apps probed and the providers each of them has; p3 is a provider
\* that is not in the failover queue.
CycleApps == {"claude", "codex"}

CycleProviders == {"p1", "p2", "p3"}

\* A provider of an app, as the database tells providers apart.
Pairs == CycleApps \X CycleProviders

\* A loop over every provider of the app, in the failover queue or not.
ProvidersToTestAll(app) == <<"p1", "p2", "p3">>

\* let providers = db.get_failover_providers(app_type)?;
\* for provider in providers { .. }
ProvidersToTest(app) == GetFailoverProviders(app)

\* The breakers kept for the URLs of one provider id.
BreakersOf(provider_id, breakers) ==
    [key \in {k \in DOMAIN breakers : k[1] = provider_id} |-> breakers[key]]

\* A test_app_endpoints call: where it stands (pc), its app, the providers
\* it loops over and its position among them (k), what the provider in hand
\* had stored (snapshot), the probe results and the one in hand (idx), and
\* the number of calls made so far (ncalls); of this call: the providers
\* handed to test_provider_endpoints (attempted), those probed, the stored
\* endpoint lists read, and the providers whose update_endpoint_health
\* failed.
IdleCycle ==
    [pc |-> "idle", app |-> None, providers |-> <<>>, k |-> 0,
     snapshot |-> <<>>, results |-> <<>>, idx |-> 0, ncalls |-> 0, ret |-> None,
     attempted |-> {}, probed |-> {}, read |-> {}, failed |-> {}]

\* The stored endpoints before any probe: fresh, never measured.
FreshEndpoints(urls) ==
    [i \in 1..Len(urls) |-> Endpoint(urls[i], Nothing, TRUE, 0, i = 1)]

CycleIdle ==
    /\ store = [pair \in Pairs |-> <<>>]
    /\ cycle = IdleCycle

\* The provider the call is testing.
CycleProvider(c) == c.providers[c.k]

CyclePair(c) == <<c.app, CycleProvider(c)>>

\* test_provider_endpoints has returned, Ok or Err: an error is logged and
\* the loop goes on to the next provider; after the last one the call
\* returns Ok(()).
AfterProviderTest(c, ok) ==
    IF c.k < Len(c.providers)
    THEN [c EXCEPT !.pc = "provider", !.k = c.k + 1,
                   !.snapshot = <<>>, !.results = <<>>, !.idx = 0]
    ELSE [c EXCEPT !.pc = "done", !.ret = "ok",
                   !.snapshot = <<>>, !.results = <<>>, !.idx = 0]

\* The loop over the results after the result in hand.
NextCycleResult(c) ==
    IF c.idx < Len(c.results) THEN [c EXCEPT !.pc = "update", !.idx = c.idx + 1]
    ELSE [c EXCEPT !.pc = "primary"]

\* An update_endpoint_health error that is passed over: the loop goes on.
UpdateHealthFailedContinues(c) == NextCycleResult(c)

\* db.update_endpoint_health(..)?: the error ends test_provider_endpoints.
UpdateHealthFailed(c) == AfterProviderTest(c, FALSE)

\* test_app_endpoints(db, url_router, app_type), from the background tick or
\* from test_now: the failover providers are read.
CycleStart(app, ok) ==
    /\ cycle.pc \in {"idle", "done"}
    /\ cycle.ncalls < MaxAppCycles
    /\ cycle' =
         LET c == [IdleCycle EXCEPT !.app = app, !.ncalls = cycle.ncalls + 1] IN
         IF ~ok THEN [c EXCEPT !.pc = "done", !.ret = "err"]
         ELSE IF ProvidersToTest(app) = <<>> THEN [c EXCEPT !.pc = "done", !.ret = "ok"]
         ELSE [c EXCEPT !.pc = "provider", !.providers = ProvidersToTest(app), !.k = 1]
    /\ UNCHANGED store
    /\ UNCHANGED <<switchVars, breakerVars, routerVars, serviceVars, probeVars, registryVars, hybridVars, formVars, inputVars, recordsVars>>

\* test_provider_endpoints starts:
\* let endpoints = db.get_provider_endpoints_with_health(..)?;
\* if endpoints.is_empty() { return Ok(()); }
CycleReadEndpoints(ok) ==
    /\ cycle.pc = "provider"
    /\ cycle' =
         LET c == [cycle EXCEPT !.attempted = @ \cup {CycleProvider(cycle)}] IN
         IF ~ok THEN AfterProviderTest(c, FALSE)
         ELSE LET r == [c EXCEPT !.read = @ \cup {CyclePair(cycle)}] IN
              IF store[CyclePair(cycle)] = <<>> THEN AfterProviderTest(r, TRUE)
              ELSE [r EXCEPT !.pc = "test", !.snapshot = store[CyclePair(cycle)]]
    /\ UNCHANGED store
    /\ UNCHANGED <<switchVars, breakerVars, routerVars, serviceVars, probeVars, registryVars, hybridVars, formVars, inputVars, recordsVars>>

\* let results = SpeedtestService::test_endpoints(urls, Some(8)).await?;
CycleTest(results, ok) ==
    /\ cycle.pc = "test"
    /\ cycle' =
         IF ~ok THEN AfterProviderTest(cycle, FALSE)
         ELSE [cycle EXCEPT !.pc = "update", !.results = results, !.idx = 1,
                            !.probed = @ \cup {CycleProvider(cycle)}]
    /\ UNCHANGED store
    /\ UNCHANGED <<switchVars, breakerVars, routerVars, serviceVars, probeVars, registryVars, hybridVars, formVars, inputVars, recordsVars>>

\* The endpoint of the snapshot the result in hand is about.
CycleEndpoint(c) ==
    LET r == c.results[c.idx] IN
    {c.snapshot[i] : i \in {j \in 1..Len(c.snapshot) : c.snapshot[j].url = r.url}}

\* db.update_endpoint_health(app_type, provider_id, &result.url, latency_ms,
\*                           is_healthy, consecutive_failures)?;
CycleUpdateHealth(ok) ==
    LET r == cycle.results[cycle.idx] IN
    /\ cycle.pc = "update"
    /\ IF CycleEndpoint(cycle) = {}
       THEN /\ cycle' = NextCycleResult(cycle)
            /\ UNCHANGED store
       ELSE IF ~ok
       THEN /\ cycle' = UpdateHealthFailed(
                           [cycle EXCEPT !.failed = @ \cup {CycleProvider(cycle)}])
            /\ UNCHANGED store
       ELSE LET endpoint == CHOOSE e \in CycleEndpoint(cycle) : TRUE IN
            /\ store' = [store EXCEPT ![CyclePair(cycle)] =
                            DbUpdateEndpointHealth(@, r.url, r.latency, IsHealthy(r),
                                ConsecutiveFailures(IsHealthy(r), endpoint))]
            /\ cycle' = [cycle EXCEPT !.pc = "record"]
    /\ UNCHANGED <<switchVars, breakerVars, routerVars, serviceVars, probeVars, registryVars, hybridVars, formVars, inputVars, recordsVars>>

\* url_router.record_url_result(provider_id, app_type, &result.url,
\*                              is_healthy, latency_ms).await: the outcome is
\* recorded on the breaker of the provider's URL and the health of the
\* endpoint is persisted from the breaker (a failed write is dropped).
CycleRecordResult(ok) ==
    LET r == cycle.results[cycle.idx]
        key == BreakerKey(CycleProvider(cycle), r.url)
        breakers == GetOrCreateCircuitBreaker(circuit_breakers, key)
        b == RecordOutcome(breakers[key], IsHealthy(r), now)
    IN
    /\ cycle.pc = "record"
    /\ circuit_breakers' = [breakers EXCEPT ![key] = b]
    /\ store' =
         IF ok
         THEN [store EXCEPT ![CyclePair(cycle)] =
                 DbUpdateEndpointHealth(@, r.url, r.latency,
                     PersistedHealth(GetState(b), IsHealthy(r)),
                     GetStats(b).consecutive_failures)]
         ELSE store
    /\ cycle' = NextCycleResult(cycle)
    /\ UNCHANGED <<endpoints, sel, rec, nresults>>
    /\ UNCHANGED <<switchVars, breakerVars, serviceVars, probeVars, registryVars, hybridVars, formVars, inputVars, recordsVars>>

\* update_primary_endpoint: get_best_endpoint_url(..)? and, if there is a
\* best URL, set_primary_endpoint(..)?
CycleUpdatePrimary(ok_best, ok_set) ==
    LET eps == store[CyclePair(cycle)]
        best == GetBestEndpointUrl(eps)
    IN
    /\ cycle.pc = "primary"
    /\ store' =
         IF ok_best /\ best # Nothing /\ ok_set
         THEN [store EXCEPT ![CyclePair(cycle)] = SetPrimaryEndpoint(eps, best[1])]
         ELSE store
    /\ cycle' = AfterProviderTest(cycle, ok_best /\ (best = Nothing \/ ok_set))
    /\ UNCHANGED <<switchVars, breakerVars, routerVars, serviceVars, probeVars, registryVars, hybridVars, formVars, inputVars, recordsVars>>

(***************************************************************************)
(* Specifications                                                          *)
(***************************************************************************)

\* The router before any call, over a database without endpoints.
RouterIdle ==
    /\ endpoints = <<>>
    /\ circuit_breakers = <<>>
    /\ sel = IdleSelect
    /\ rec = IdleRecord
    /\ nresults = 0

InitSwitch ==
    /\ InitSwitchState /\ InitBreakerState /\ RouterIdle
    /\ ServiceIdle /\ ProbeIdle /\ RegistryIdle /\ CycleIdle /\ RecordsIdle /\ InputIdle /\ FormIdle /\ HybridIdle

NextSwitch == NextSwitchStep

SpecSwitch == InitSwitch /\ [][NextSwitch]_vars

\* The switch manager before any call.
SwitchIdle ==
    /\ pending_switches = {}
    /\ dbCurrent = [a \in SwitchApps |->
                      IF a \in AppTypes THEN {InitialProvider} ELSE {}]
    /\ settingsCurrent = [a \in AppTypes |-> InitialProvider]
    /\ proxyEnabled = [a \in SwitchApps |-> TRUE]
    /\ task = [t \in Tasks |-> IdleTask]

InitBreaker ==
    /\ InitBreakerState /\ SwitchIdle /\ RouterIdle
    /\ ServiceIdle /\ ProbeIdle /\ RegistryIdle /\ CycleIdle /\ RecordsIdle /\ InputIdle /\ FormIdle /\ HybridIdle

NextBreaker == NextBreakerStep

SpecBreaker == InitBreaker /\ [][NextBreaker]_vars

InitRouter ==
    /\ InitRouterState /\ InitBreakerState /\ SwitchIdle
    /\ ServiceIdle /\ ProbeIdle /\ RegistryIdle /\ CycleIdle /\ RecordsIdle /\ InputIdle /\ FormIdle /\ HybridIdle

\* Breakers of other configurations than the router's: the rate rule set to
\* trip on any failure (min_requests = 0, error_rate_threshold = 0), under
\* several failure thresholds.
ZeroRateConfig(failure_threshold) ==
    [DefaultConfig EXCEPT !.failure_threshold = failure_threshold,
                          !.error_rate_num = 0,
                          !.min_requests = 0]

BreakerConfigs ==
    {DefaultConfig} \cup {ZeroRateConfig(n) : n \in {1, FailureThreshold, MaxRecords + 1}}

InitBreakerConfigs ==
    /\ now = 0
    /\ cb \in {NewBreaker(config) : config \in BreakerConfigs}
    /\ recorded = <<>>
    /\ avail = Nothing
    /\ holders = 0
    /\ SwitchIdle
    /\ RouterIdle
    /\ ServiceIdle
    /\ ProbeIdle
    /\ RegistryIdle /\ CycleIdle /\ RecordsIdle /\ InputIdle /\ FormIdle /\ HybridIdle

SpecBreakerConfigs == InitBreakerConfigs /\ [][NextBreaker]_vars

NextRouter == NextRouterStep

SpecRouter == InitRouter /\ [][NextRouter]_vars

\* The router after record_url_result(A, success = false, None) has been
\* called FailureThreshold times in a row at time 0, over the endpoints A and
\* B: A's breaker has counted the failures and the database holds the health
\* persisted by the last call.
RECURSIVE FailuresRecorded(_, _)
FailuresRecorded(b, n) ==
    IF n = 0 THEN b ELSE RecordOutcome(FailuresRecorded(b, n - 1), FALSE, 0)

InitRouterTripped ==
    LET b == FailuresRecorded(NewBreaker(DefaultConfig), FailureThreshold)
        key == BreakerKey(RouterProvider, UrlA)
    IN
    /\ \E eps \in InitialEndpointLists :
        /\ Len(eps) = 2
        /\ endpoints = DbUpdateEndpointHealth(eps, UrlA, Nothing,
                            GetState(b) # "Open",
                            GetStats(b).consecutive_failures)
    /\ circuit_breakers = [k \in {key} |-> b]
    /\ sel = IdleSelect
    /\ rec = IdleRecord
    /\ nresults = 0
    /\ InitBreakerState
    /\ SwitchIdle
    /\ ServiceIdle
    /\ ProbeIdle
    /\ RegistryIdle /\ CycleIdle /\ RecordsIdle /\ InputIdle /\ FormIdle /\ HybridIdle

SpecRouterTripped == InitRouterTripped /\ [][NextRouter]_vars

\* select_url alone, over endpoints with measured latencies (none, 50 ms,
\* 100 ms), each of A and B with a breaker that has just opened, or with none.
MeasuredLatencies == {Nothing, Some(50), Some(100)}

TrippedBreakers(urls) ==
    [k \in {BreakerKey(RouterProvider, u) : u \in urls} |->
        FailuresRecorded(NewBreaker(DefaultConfig), FailureThreshold)]

InitSelect ==
    /\ endpoints \in EndpointLists(MeasuredLatencies)
    /\ \E urls \in SUBSET EndpointUrls : circuit_breakers = TrippedBreakers(urls)
    /\ sel = IdleSelect
    /\ rec = IdleRecord
    /\ nresults = 0
    /\ InitBreakerState
    /\ SwitchIdle
    /\ ServiceIdle
    /\ ProbeIdle
    /\ RegistryIdle /\ CycleIdle /\ RecordsIdle /\ InputIdle /\ FormIdle /\ HybridIdle

NextSelect ==
    \/ CooldownPasses
    \/ \E c \in ConfigUrls, ok \in BOOLEAN : SelectStart(c, ok)
    \/ SelectCheck
    \/ SelectFinish

SpecSelect == InitSelect /\ [][NextSelect]_vars

\* The latency service alone: start and stop calls and the loops they spawn.
InitService ==
    /\ InitServiceState /\ InitBreakerState /\ SwitchIdle /\ RouterIdle
    /\ ProbeIdle /\ RegistryIdle /\ CycleIdle /\ RecordsIdle /\ InputIdle /\ FormIdle /\ HybridIdle

NextService == NextServiceStep

SpecService == InitService /\ [][NextService]_vars

\* One provider's probe cycles, over endpoints with persisted latencies.  The
\* breaker of A is absent, or has just opened on FailureThreshold failures in
\* a row with A persisted accordingly, or was lost with the process after
\* that (restarted).
InitProbe ==
    /\ \E eps \in EndpointLists(PersistedLatencies), tripped, restarted \in BOOLEAN :
        LET b == FailuresRecorded(NewBreaker(DefaultConfig), FailureThreshold) IN
        /\ tripped => eps # <<>>
        /\ restarted => tripped
        /\ endpoints =
             IF tripped
             THEN DbUpdateEndpointHealth(eps, UrlA, Nothing, GetState(b) # "Open",
                                         GetStats(b).consecutive_failures)
             ELSE eps
        /\ circuit_breakers =
             IF tripped /\ ~restarted THEN TrippedBreakers({UrlA}) ELSE <<>>
    /\ sel = IdleSelect
    /\ rec = IdleRecord
    /\ nresults = 0
    /\ ProbeIdle
    /\ InitBreakerState
    /\ SwitchIdle
    /\ ServiceIdle
    /\ RegistryIdle /\ CycleIdle /\ RecordsIdle /\ InputIdle /\ FormIdle /\ HybridIdle

NextProbe == NextProbeStep

SpecProbe == InitProbe /\ [][NextProbe]_vars

\* The probe cycles beside the record_url_result calls of the request layer,
\* over freshly stored endpoints: MaxCycles calls in all, cycles and request
\* results together.
InitProbeRace ==
    /\ endpoints \in EndpointLists(PersistedLatencies)
    /\ circuit_breakers = <<>>
    /\ sel = IdleSelect
    /\ rec = IdleRecord
    /\ nresults = 0
    /\ ProbeIdle
    /\ InitBreakerState
    /\ SwitchIdle
    /\ ServiceIdle
    /\ RegistryIdle /\ CycleIdle /\ RecordsIdle /\ InputIdle /\ FormIdle /\ HybridIdle

CallsLeft == ncycles + nresults < MaxCycles

RaceProbeStart(ok) == CallsLeft /\ ProbeStart(ok)

RaceRecordStart(url, success, latency_ms) ==
    CallsLeft /\ RecordStart(url, success, latency_ms)

NextProbeRace ==
    \/ \E ok \in BOOLEAN : RaceProbeStart(ok)
    \/ \E ok \in BOOLEAN :
        \E results \in TestEndpoints([i \in 1..Len(probe.snapshot) |->
                                        probe.snapshot[i].url]) :
            ProbeTest(results, ok)
    \/ \E ok \in BOOLEAN : ProbeUpdateHealth(ok)
    \/ ProbeRecordResult
    \/ ProbeGetState
    \/ ProbeGetStats
    \/ \E ok \in BOOLEAN : ProbePersist(ok)
    \/ \E ok \in BOOLEAN : ProbeGetBest(ok)
    \/ \E ok \in BOOLEAN : ProbeSetPrimary(ok)
    \/ \E u \in ResultUrls, success \in BOOLEAN :
            \E l \in ResultLatencies(success) : RaceRecordStart(u, success, l)
    \/ RecordGetState
    \/ RecordGetStats
    \/ \E ok \in BOOLEAN : RecordPersist(ok)

SpecProbeRace == InitProbeRace /\ [][NextProbeRace]_vars

\* get_or_create_circuit_breaker under concurrent callers.
InitRegistry ==
    /\ RegistryIdle /\ CycleIdle /\ RecordsIdle /\ InputIdle /\ FormIdle /\ HybridIdle
    /\ InitBreakerState
    /\ SwitchIdle
    /\ RouterIdle
    /\ ServiceIdle
    /\ ProbeIdle

NextRegistry == NextRegistryStep

SpecRegistry == InitRegistry /\ [][NextRegistry]_vars

\* The hybrid mode queries over every stored configuration.
InitHybrid ==
    /\ SwitchIdle /\ InitBreakerState /\ RouterIdle
    /\ ServiceIdle /\ ProbeIdle /\ RegistryIdle /\ CycleIdle /\ RecordsIdle /\ InputIdle /\ FormIdle
    /\ hybrid \in [stored : [HybridApps -> HybridModeConfigs],
                   last : {NoHybridCall}]

NextHybrid ==
    \/ \E app_type \in HybridApps, ok \in BOOLEAN :
          CallGetHybridConfig(app_type, ok)
    \/ \E app_type \in HybridApps, ok \in BOOLEAN :
          CallIsHybridModeEnabled(app_type, ok)

SpecHybrid == InitHybrid /\ [][NextHybrid]_vars


\* Stored endpoint URLs of a provider: unique after normalization.
StoredUrlSets ==
    {stored \in SUBSET {UrlA, UrlASlash, UrlB} :
        \A x, y \in stored : NormalizeUrl(x) = NormalizeUrl(y) => x = y}

\* The provider form over every typed text of up to MaxInputLen characters.
InitForm ==
    /\ SwitchIdle /\ InitBreakerState /\ RouterIdle
    /\ ServiceIdle /\ ProbeIdle /\ RegistryIdle /\ CycleIdle /\ RecordsIdle /\ InputIdle /\ HybridIdle
    /\ form \in {NewForm(input, stored) :
                    input \in FormStrings(MaxInputLen), stored \in StoredUrlSets}

NextForm ==
    \/ Parse
    \/ Sync
    \/ Normalize
    \/ NormalizeAgain

SpecForm == InitForm /\ [][NextForm]_vars


\* A text input opened with new or with_value and edited key by key.
InitInput ==
    /\ SwitchIdle /\ InitBreakerState /\ RouterIdle
    /\ ServiceIdle /\ ProbeIdle /\ RegistryIdle /\ CycleIdle /\ RecordsIdle /\ HybridIdle /\ FormIdle
    /\ popup_input \in {WithValue(value) : value \in InputValues(MaxValueLen)}

NextInput ==
    \/ \E c \in InputChars : Insert(c)
    \/ Backspace
    \/ Delete
    \/ MoveLeft
    \/ MoveRight
    \/ Home
    \/ End
    \/ Clear
    \/ RenderPopup

SpecInput == InitInput /\ [][NextInput]_vars


\* Concurrent record_url_result calls, one per task, for the one endpoint A
\* whose breaker has seen up to FailureThreshold - 1 failures, all persisted.
InitRecords ==
    /\ \E n \in 0..(FailureThreshold - 1) :
        LET b == FailuresRecorded(NewBreaker(DefaultConfig), n) IN
        /\ endpoints = <<Endpoint(UrlA, Nothing, GetState(b) # "Open",
                                  GetStats(b).consecutive_failures, TRUE)>>
        /\ circuit_breakers = [k \in {BreakerKey(RouterProvider, UrlA)} |-> b]
    /\ sel = IdleSelect
    /\ rec = IdleRecord
    /\ nresults = 0
    /\ recs = [c \in Tasks |-> IdleResult]
    /\ InitBreakerState /\ SwitchIdle /\ ServiceIdle /\ ProbeIdle
    /\ RegistryIdle /\ CycleIdle /\ HybridIdle /\ FormIdle /\ InputIdle

NextRecords ==
    \/ \E c \in Tasks, success \in BOOLEAN : ConcurrentRecordStart(c, success)
    \/ \E c \in Tasks : ConcurrentRecordGetState(c)
    \/ \E c \in Tasks : ConcurrentRecordGetStats(c)
    \/ \E c \in Tasks, ok \in BOOLEAN : ConcurrentRecordPersist(c, ok)

SpecRecords == InitRecords /\ [][NextRecords]_vars


\* Probe cycles over two apps.  claude: p1 with two endpoints and p2 with
\* one are in the failover queue; codex: p1 has no endpoint; p3 of either
\* app has an endpoint and is not in the queue.
InitCycle ==
    /\ store = [pair \in Pairs |->
                  CASE pair = <<"claude", "p1">> -> FreshEndpoints(<<UrlA, UrlB>>)
                    [] pair = <<"claude", "p2">> -> FreshEndpoints(<<UrlA>>)
                    [] pair = <<"codex", "p1">> -> <<>>
                    [] pair = <<"codex", "p2">> -> FreshEndpoints(<<UrlB>>)
                    [] OTHER -> FreshEndpoints(<<UrlA>>)]
    /\ cycle = IdleCycle
    /\ InitBreakerState /\ SwitchIdle /\ RouterIdle /\ ServiceIdle /\ ProbeIdle
    /\ RegistryIdle /\ HybridIdle /\ FormIdle /\ InputIdle /\ RecordsIdle

NextCycle ==
    \/ \E app \in CycleApps, ok \in BOOLEAN : CycleStart(app, ok)
    \/ \E ok \in BOOLEAN : CycleReadEndpoints(ok)
    \/ \E ok \in BOOLEAN :
        \E results \in TestEndpoints([i \in 1..Len(cycle.snapshot) |->
                                        cycle.snapshot[i].url]) :
            CycleTest(results, ok)
    \/ \E ok \in BOOLEAN : CycleUpdateHealth(ok)
    \/ \E ok \in BOOLEAN : CycleRecordResult(ok)
    \/ \E ok_best, ok_set \in BOOLEAN : CycleUpdatePrimary(ok_best, ok_set)

SpecCycle == InitCycle /\ [][NextCycle]_vars


(***************************************************************************)
(* Properties of FailoverSwitchManager (checked under SpecSwitch).          *)
(***************************************************************************)

\* The calls issued with one key.
CallsFor(app, pid) ==
    {t \in Tasks : task[t].pc # "idle" /\ task[t].app = app /\ task[t].pid = pid}

Done(t) == task[t].pc = "done"

Returned(t) == Done(t) /\ task[t].result # "abandoned"

\* The call returned Ok(false) from the first block: it found its key pending.
Coalesced(t) == Done(t) /\ task[t].result = "false" /\ task[t].cfg = None

\* A store operation of the call failed.
StoreFailed(t) == task[t].cfg = "err" \/ task[t].result = "err"

\* The two calls were in progress at the same time.
Overlap(t, u) == u \in task[t].during \/ t \in task[u].during

\* No call for another provider of the app has written the database.
OnlyWriters(S, app) ==
    \A u \in Tasks \ S : ~(task[u].app = app /\ task[u].wroteDb)

\* C1 as stated: when several try_switch calls for the same key overlap on
\* an app under proxy control (here even with every store operation
\* succeeding and every call running to its return), exactly one of them
\* returns Ok(true), every other one returns Ok(false), and afterwards
\* provider_id is current in the database.
C1_ExactlyOneTrue ==
    \A app \in AppTypes \cap SwitchApps, pid \in Providers :
        LET S == CallsFor(app, pid) IN
        ( /\ Cardinality(S) >= 2
          /\ proxyEnabled[app]
          /\ \A t \in S : Returned(t) /\ ~StoreFailed(t)
          /\ \A t, u \in S : t # u => Overlap(t, u)
          /\ OnlyWriters(S, app) )
        => /\ Cardinality({t \in S : task[t].result = "true"}) = 1
           /\ \A t \in S : task[t].result \in {"true", "false"}
           /\ dbCurrent[app] = {pid}

\* C1 amended: among the try_switch calls for one key on an app under proxy
\* control, once all have ended, a call has returned Ok(false) only if it
\* found the key pending (and then it wrote nothing) or its configuration
\* read failed; at least one has returned Ok(true) unless a store operation
\* of one of them failed or one of them was abandoned; and if one of them
\* wrote the database and no call for another provider of the app did,
\* provider_id is current in the database.  More than one may return
\* Ok(true).
C1_Dedup ==
    \A app \in AppTypes \cap SwitchApps, pid \in Providers :
        LET S == CallsFor(app, pid) IN
        (S # {} /\ proxyEnabled[app] /\ \A t \in S : Done(t))
        => /\ \A t \in S : task[t].result = "false" =>
                \/ Coalesced(t) /\ ~task[t].wroteDb /\ ~task[t].wroteSettings
                \/ task[t].cfg = "err"
           /\ \/ \E t \in S : task[t].result = "true"
              \/ \E t \in S : StoreFailed(t) \/ task[t].result = "abandoned"
           /\ ((\E t \in S : task[t].wroteDb) /\ OnlyWriters(S, app))
                => dbCurrent[app] = {pid}

\* Two overlapping calls for one key on an app under proxy control have both
\* returned, one Ok(true) and the other, coalesced, Ok(false).
C1_Witness ==
    \E t, u \in Tasks :
        /\ t # u /\ Overlap(t, u)
        /\ task[t].app = task[u].app /\ task[t].pid = task[u].pid
        /\ task[t].app \in AppTypes /\ proxyEnabled[task[t].app]
        /\ Done(t) /\ task[t].result = "true"
        /\ Coalesced(u)
        /\ dbCurrent[task[t].app] = {task[t].pid}

\* C4 as stated: a key is in pending_switches only while a try_switch call
\* for it is in progress between its insert and its remove, on every exit
\* path of the call, abandonment included.
C4_KeyOnlyWhileInProgress ==
    \A app \in SwitchApps, pid \in Providers :
        SwitchKey(app, pid) \in pending_switches
            => \E t \in CallsFor(app, pid) : InDoSwitch(t)

\* C5: at every moment at most one call is executing do_switch (holds the
\* key, between insert and remove) for a given key.
C5_AtMostOneDoSwitch ==
    \A t, u \in Tasks :
        (t # u /\ InDoSwitch(t) /\ InDoSwitch(u)) => KeyOf(t) # KeyOf(u)

\* A call is inside do_switch while an overlapping call for the same key has
\* been turned away with Ok(false).
C5_Witness ==
    \E t, u \in Tasks :
        /\ t # u /\ KeyOf(t) = KeyOf(u)
        /\ InDoSwitch(t) /\ task[t].pc = "settings"
        /\ Coalesced(u) /\ t \in task[u].during

\* C6: a call that read ProxyAppConfig{enabled: false} returns Ok(false) and
\* writes neither store; the current provider of an app that is not under
\* proxy control stays what it was in the database and in the settings, and
\* a call that is alone with its key leaves the key out of the pending set.
C6_DisabledAppUntouched ==
    /\ \A t \in Tasks : task[t].cfg = "off" =>
         /\ ~task[t].wroteDb /\ ~task[t].wroteSettings
         /\ task[t].result \in {"false", "abandoned"}
         /\ (Returned(t) /\ CallsFor(task[t].app, task[t].pid) = {t})
              => KeyOf(t) \notin pending_switches
    /\ \A app \in AppTypes \cap SwitchApps : ~proxyEnabled[app] =>
         /\ dbCurrent[app] = {InitialProvider}
         /\ settingsCurrent[app] = InitialProvider

\* try_switch for another provider of an app that is not under proxy control
\* has returned Ok(false).
C6_Witness ==
    \E t \in Tasks :
        /\ task[t].cfg = "off" /\ Returned(t) /\ task[t].result = "false"
        /\ task[t].app \in AppTypes /\ task[t].pid # InitialProvider
        /\ dbCurrent[task[t].app] = {InitialProvider}

\* C7 as stated: a call that is the only one issued and has ended has
\* updated both stores to provider_id or neither, and if it returned Err the
\* database current provider is what it was before the call.
C7_BothOrNeither ==
    \A t \in Tasks :
        ( /\ Done(t) /\ task[t].app \in AppTypes
          /\ \A u \in Tasks \ {t} : task[u].pc = "idle" )
        => /\ (dbCurrent[task[t].app] = {task[t].pid})
                <=> (settingsCurrent[task[t].app] = task[t].pid)
           /\ task[t].result = "err" => dbCurrent[task[t].app] = {InitialProvider}

RepeatedDbWrite(t) ==
    /\ task[t].pc = "dbwrite" /\ task'[t].pc = "settings"
    /\ dbCurrent[task[t].app] = {task[t].pid}

\* A settings write of a call that targets the provider already recorded.
RepeatedSettingsWrite(t) ==
    /\ task[t].pc = "settings" /\ task'[t].result = "true"
    /\ settingsCurrent[task[t].app] = task[t].pid

\* C9: in every reachable state exactly one provider per AppType is current
\* in the database, and a switch to the provider that is already current
\* leaves the database and the settings unchanged.
C9_ExactlyOneCurrent ==
    /\ [](\A app \in AppTypes \cap SwitchApps :
            /\ dbCurrent[app] \subseteq Providers
            /\ Cardinality(dbCurrent[app]) = 1)
    /\ [][\A t \in Tasks :
            /\ RepeatedDbWrite(t) => dbCurrent' = dbCurrent
            /\ RepeatedSettingsWrite(t) => settingsCurrent' = settingsCurrent
         ]_vars

\* Two calls have switched the same app to the same provider, one after the
\* other, both returning Ok(true); that provider alone is current.
C9_Witness ==
    \E t, u \in Tasks :
        /\ t # u /\ KeyOf(t) = KeyOf(u) /\ task[t].app \in AppTypes
        /\ ~Overlap(t, u)
        /\ task[t].result = "true" /\ task[u].result = "true"
        /\ Done(t) /\ Done(u)
        /\ dbCurrent[task[t].app] = {task[t].pid}
        /\ settingsCurrent[task[t].app] = task[t].pid

(***************************************************************************)
(* Properties of the circuit breaker (checked under SpecBreaker).          *)
(***************************************************************************)

\* The number of failures at the end of a sequence of outcomes, back to the
\* most recent success (or to the start).
RECURSIVE FailureSuffix(_)
FailureSuffix(h) ==
    IF h = <<>> \/ h[Len(h)] THEN 0
    ELSE 1 + FailureSuffix(SubSeq(h, 1, Len(h) - 1))

\* C10: after every sequence of recorded outcomes, in every state of the
\* breaker, stats.consecutive_failures is the number of failures recorded
\* since the most recent recorded success.
C10_ConsecutiveFailures ==
    GetStats(cb).consecutive_failures = FailureSuffix(recorded)

\* In HalfOpen, a success and then a failure have been recorded after the
\* breaker had opened: the count restarted from the success.
C10_Witness ==
    /\ Len(recorded) >= 5
    /\ recorded[Len(recorded) - 1] /\ ~recorded[Len(recorded)]
    /\ GetState(cb) = "Open"
    /\ cb.opened_at # Nothing /\ cb.opened_at[1] > 0
    /\ GetStats(cb).consecutive_failures = 1

\* The breaker is Open and fewer than timeout_seconds have passed since the
\* time t it was opened at.
OpenSince(t) ==
    /\ GetState(cb) = "Open"
    /\ now - t < TimeoutSeconds

\* C11: is_available() returns false exactly when the breaker is Open and
\* fewer than timeout_seconds have elapsed since opened_at; opened_at is the
\* time of the failure that (re)opened the breaker and stays while it is
\* Open, so no call returns true before that time + timeout_seconds.
C11_AvailableAfterCooldown ==
    /\ [](avail # Nothing =>
            (avail[1] <=> ~(\E t \in 0..MaxTime :
                                GetStats(cb).opened_at = Some(t) /\ OpenSince(t))))
    /\ [](GetState(cb) = "Open" => GetStats(cb).opened_at # Nothing)
    /\ [][GetState(cb) # "Open" /\ GetState(cb') = "Open"
            => GetStats(cb').opened_at = Some(now)]_vars
    /\ [][GetState(cb) = "Open" /\ GetState(cb') = "Open"
            => GetStats(cb').opened_at = GetStats(cb).opened_at]_vars

\* is_available() has answered false on a breaker that was opened, and on
\* another occasion true on a breaker still Open after its cooldown.
C11_Witness ==
    /\ GetState(cb) = "Open"
    /\ \E t \in 0..MaxTime :
          GetStats(cb).opened_at = Some(t) /\ now - t >= TimeoutSeconds
    /\ avail = Some(TRUE)

C11_WitnessCooling ==
    /\ GetState(cb) = "Open"
    /\ \E t \in 0..MaxTime :
          GetStats(cb).opened_at = Some(t) /\ now > t /\ now - t < TimeoutSeconds
    /\ avail = Some(FALSE)

\* A step that records a failure / a success on the breaker.
FailureRecorded == recorded' = Append(recorded, FALSE)

SuccessRecorded == recorded' = Append(recorded, TRUE)

\* The opening rule of the router's breakers (UrlRouter::new), on the stats
\* after the failure has been counted.
TripRule(stats) ==
    \/ stats.consecutive_failures >= FailureThreshold
    \/ /\ stats.total_requests_in_window >= MinRequests
       /\ stats.total_failures_in_window * ErrorRateDen
            >= ErrorRateNum * stats.total_requests_in_window

\* C12: a Closed breaker moves to Open on a recorded failure if and only if,
\* after counting that failure, consecutive_failures >= failure_threshold or
\* (window size >= min_requests and failure rate >= error_rate_threshold);
\* opened_at is set to the time of that failure; a success leaves it Closed.
C12_ClosedToOpen ==
    /\ [][GetState(cb) = "Closed" /\ FailureRecorded =>
            /\ GetState(cb') = "Open" <=> TripRule(GetStats(cb'))
            /\ GetState(cb') \in {"Closed", "Open"}
            /\ GetState(cb') = "Open" => GetStats(cb').opened_at = Some(now)
         ]_vars
    /\ [][GetState(cb) = "Closed" /\ SuccessRecorded
            => GetState(cb') = "Closed"]_vars
    /\ [](/\ GetState(cb) = "Closed"
          /\ GetStats(cb).opened_at = Nothing
          => /\ FailureSuffix(recorded) <= FailureThreshold - 1
             /\ \/ Len(recorded) < MinRequests
                \/ ~TripRule(GetStats(cb))
                \/ recorded[Len(recorded)])

\* The third consecutive failure has opened a breaker that had fewer than
\* min_requests outcomes.
C12_Witness ==
    /\ recorded = <<FALSE, FALSE, FALSE>>
    /\ GetState(cb) = "Open"
    /\ GetStats(cb).opened_at = Some(now)

\* The rate rule alone has opened the breaker: one consecutive failure, with
\* min_requests outcomes of which half or more failed.
C12_WitnessRate ==
    /\ Len(recorded) = MinRequests
    /\ FailureSuffix(recorded) = 1
    /\ GetState(cb) = "Open"
    /\ GetStats(cb).opened_at = Some(now)
    /\ GetStats(cb).consecutive_failures < FailureThreshold

\* Two consecutive failures and a success (fewer than min_requests outcomes)
\* have left the breaker Closed.
C12_WitnessStaysClosed ==
    /\ recorded = <<FALSE, FALSE, TRUE, FALSE>>
    /\ GetState(cb) = "Closed"

\* The breaker's rate rule is set to trip on any failure.
ZeroRate(b) == b.config.min_requests = 0 /\ b.config.error_rate_num = 0

\* C13 (checked under SpecBreakerConfigs): with min_requests = 0 and
\* error_rate_threshold = 0, a failure recorded on a Closed breaker opens it
\* at once, whatever failure_threshold is and whatever successes preceded.
C13_ZeroRateOpensAtOnce ==
    [][ZeroRate(cb) /\ GetState(cb) = "Closed" /\ FailureRecorded
        => GetState(cb') = "Open" /\ GetStats(cb').opened_at = Some(now)]_vars

\* A breaker with a failure threshold beyond reach has been opened by its
\* first failure, which followed a success.
C13_Witness ==
    /\ ZeroRate(cb)
    /\ cb.config.failure_threshold > MaxRecords
    /\ recorded = <<TRUE, FALSE>>
    /\ GetState(cb) = "Open"

\* C14: in HalfOpen a recorded failure moves the breaker back to Open and
\* resets opened_at to the time of that failure; a recorded success moves it
\* to Closed only once consecutive_successes >= success_threshold and
\* otherwise leaves it HalfOpen.
C14_HalfOpen ==
    /\ [][GetState(cb) = "HalfOpen" /\ FailureRecorded
            => /\ GetState(cb') = "Open"
               /\ GetStats(cb').opened_at = Some(now)]_vars
    /\ [][GetState(cb) = "HalfOpen" /\ SuccessRecorded
            => IF GetStats(cb').consecutive_successes >= SuccessThreshold
               THEN GetState(cb') = "Closed"
               ELSE GetState(cb') = "HalfOpen"]_vars

\* A probe failed in HalfOpen, later than the first opening: the breaker is
\* Open again with opened_at at the time of that failure.
C14_WitnessReopened ==
    /\ Len(recorded) = FailureThreshold + 1
    /\ ~recorded[Len(recorded)]
    /\ GetState(cb) = "Open"
    /\ now >= TimeoutSeconds
    /\ GetStats(cb).opened_at = Some(now)

\* One success in HalfOpen has left the breaker HalfOpen.
C14_Witness ==
    /\ Len(recorded) = FailureThreshold + 1
    /\ recorded[Len(recorded)]
    /\ GetState(cb) = "HalfOpen"
    /\ GetStats(cb).consecutive_successes = SuccessThreshold - 1

\* The success that reached success_threshold has closed it.
C14_WitnessClosed ==
    /\ Len(recorded) = FailureThreshold + SuccessThreshold
    /\ recorded[Len(recorded)]
    /\ GetState(cb) = "Closed"
    /\ GetStats(cb).opened_at # Nothing
    /\ GetStats(cb).consecutive_successes = SuccessThreshold

\* A step in which a caller is handed a trial permit.
PermitIssued == holders' > holders

C15_WitnessNextPermit ==
    /\ GetState(cb) = "HalfOpen"
    /\ holders = 1
    /\ GetStats(cb).consecutive_successes = SuccessThreshold - 1

(***************************************************************************)
(* Properties of UrlRouter (checked under SpecRouter).                     *)
(***************************************************************************)

\* The step in which select_url returns after its filter loop.
SelectReturns == sel.pc = "check" /\ sel'.pc = "done"

\* What the breaker of a candidate showed when select_url examined it.
SawOpen(o) == o.state = "Open"

SawUnavailable(o) == o.state = "Open" /\ ~o.elapsed

\* The breaker registered for a URL, if any, is Open and cooling down.
CoolingDown(url) ==
    LET key == BreakerKey(RouterProvider, url) IN
    /\ key \in DOMAIN circuit_breakers
    /\ GetState(circuit_breakers[key]) = "Open"
    /\ ~CooldownElapsed(circuit_breakers[key], now)

C3_AlwaysYieldsUrl ==
    sel.pc = "done" => sel.result.kind = "ok"

\* The steps of the calls on the router.
IsAvailableAsked == sel.pc = "check" /\ Len(sel'.checked) > Len(sel.checked)

StateRead == rec.pc = "state" /\ rec'.pc = "stats"

StatsRead == rec.pc = "stats" /\ rec'.pc = "persist"

OutcomeRecordedOn(key) ==
    /\ rec.pc = "idle" /\ rec'.pc = "state"
    /\ key = BreakerKey(RouterProvider, rec'.url)

\* The registered breakers are as they were (new ones may have been added).
BreakersKept ==
    \A key \in DOMAIN circuit_breakers :
        /\ key \in DOMAIN circuit_breakers'
        /\ circuit_breakers'[key] = circuit_breakers[key]

\* C16: the state and the stats of a breaker change only when
\* record_url_result records an outcome on it; the is_available() call of
\* select_url, get_state() and get_stats() leave every breaker as it was.
C16_OnlyRecordChanges ==
    /\ [][\A key \in DOMAIN circuit_breakers :
            /\ key \in DOMAIN circuit_breakers'
            /\ \/ GetState(circuit_breakers'[key]) # GetState(circuit_breakers[key])
               \/ GetStats(circuit_breakers'[key]) # GetStats(circuit_breakers[key])
               => OutcomeRecordedOn(key)]_vars
    /\ [][IsAvailableAsked \/ StateRead \/ StatsRead => BreakersKept]_vars

\* select_url has asked an Open breaker whose cooldown has elapsed, found it
\* available, and the breaker is Open as before.
C16_Witness ==
    /\ sel.pc = "check"
    /\ \E i \in 1..Len(sel.checked) :
        LET key == BreakerKey(RouterProvider, sel.checked[i].endpoint.url) IN
        /\ sel.checked[i].state = "Open" /\ sel.checked[i].kept
        /\ GetState(circuit_breakers[key]) = "Open"
        /\ GetStats(circuit_breakers[key]).consecutive_failures = FailureThreshold

\* The URLs of a list of endpoints or candidates.
UrlsOf(list) == {list[i].url : i \in 1..Len(list)}

\* The breaker registered for a URL has counted n or more consecutive
\* failures and no success since.
FailedInARow(url, n) ==
    LET key == BreakerKey(RouterProvider, url) IN
    /\ key \in DOMAIN circuit_breakers
    /\ GetStats(circuit_breakers[key]).consecutive_failures >= n

\* select_url examined the breaker of url and found it Open and cooling down
\* / found it available.
ExaminedUnavailable(url) ==
    \E i \in 1..Len(sel.checked) :
        sel.checked[i].endpoint.url = url /\ SawUnavailable(sel.checked[i])

ExaminedAvailable(url) ==
    \E i \in 1..Len(sel.checked) :
        sel.checked[i].endpoint.url = url /\ ~SawUnavailable(sel.checked[i])

\* The case of C17 at the return of select_url: three failures in a row have
\* been recorded on A, the call has examined A's breaker after that and
\* before the cooldown elapsed, and B's breaker was available.
ThreeFailuresOnA ==
    /\ {UrlA, UrlB} \subseteq UrlsOf(sel.cands)
    /\ FailedInARow(UrlA, FailureThreshold)
    /\ CoolingDown(UrlA)
    /\ ExaminedUnavailable(UrlA)
    /\ ExaminedAvailable(UrlB)

\* C17 as stated: with endpoints A and B, B available, and three failures in
\* a row recorded on A, the next select_url before the cooldown has elapsed
\* returns B, whatever config_base_url it is called with.
C17_ReturnsB ==
    [][SelectReturns /\ ThreeFailuresOnA /\ UrlsOf(endpoints) = {UrlA, UrlB}
        => sel'.result.url = UrlB]_vars

\* C17 amended: the same, for a select_url whose config_base_url is one of
\* the two endpoints (up to trailing slashes), so that A and B are the only
\* candidates; it never returns A.
C17_ReturnsBOfTwo ==
    [][SelectReturns /\ ThreeFailuresOnA
        => /\ sel'.result.url # UrlA
           /\ UrlsOf(sel.cands) = {UrlA, UrlB} => sel'.result.url = UrlB]_vars

\* select_url(config_base_url = A) has returned B over the primary endpoint
\* A, on which three failures in a row were recorded, within the cooldown.
C17_Witness ==
    /\ sel.pc = "done" /\ sel.result = [kind |-> "ok", url |-> UrlB]
    /\ sel.config \in {UrlA, UrlASlash}
    /\ UrlsOf(endpoints) = {UrlA, UrlB}
    /\ endpoints[1].url = UrlA /\ endpoints[1].is_primary
    /\ FailedInARow(UrlA, FailureThreshold)
    /\ nresults = FailureThreshold
    /\ CoolingDown(UrlA)
    /\ rec.pc = "idle"

\* record_url_result(url, success = false) records its failure in this step.
FailureRecordedOn(url) ==
    /\ OutcomeRecordedOn(BreakerKey(RouterProvider, url))
    /\ rec'.url = url /\ ~rec'.success

\* The breaker registered for a URL is Open and its cooldown has elapsed.
CooledDown(url) ==
    LET key == BreakerKey(RouterProvider, url) IN
    /\ key \in DOMAIN circuit_breakers
    /\ GetState(circuit_breakers[key]) = "Open"
    /\ CooldownElapsed(circuit_breakers[key], now)

\* C18 as stated: when A's breaker has opened, the cooldown has elapsed,
\* select_url has returned A again and the request sent to A records a
\* failure, A is unavailable at once: Open, with a cooldown that starts at
\* that failure, so that the next select_url excludes A.
C18_FailedProbeReopens ==
    [][/\ CooledDown(UrlA)
       /\ sel.pc = "done" /\ sel.result = [kind |-> "ok", url |-> UrlA]
       /\ FailureRecordedOn(UrlA)
       => LET b == circuit_breakers'[BreakerKey(RouterProvider, UrlA)] IN
          /\ GetState(b) = "Open"
          /\ GetStats(b).opened_at = Some(now)
          /\ ~IsAvailable(b, now)]_vars

\* select_url has returned A again, after A's breaker had opened and its
\* cooldown had elapsed.
C18_Witness ==
    /\ CooledDown(UrlA)
    /\ UrlsOf(endpoints) = {UrlA, UrlB}
    /\ sel.pc = "done" /\ sel.result = [kind |-> "ok", url |-> UrlA]

\* The step in which record_url_result persists the health and returns,
\* and the database has taken the write.
HealthPersisted ==
    /\ rec.pc = "persist" /\ rec'.pc = "idle"
    /\ endpoints' # endpoints

\* C19 as stated: when record_url_result(url, success = true, latency = L)
\* has persisted and returned, whatever state the breaker of the URL was in,
\* the persisted endpoint of the URL is healthy, with latency L and no
\* consecutive failure.
C19_SuccessPersistsHealthy ==
    [][HealthPersisted /\ rec.success =>
        \E i \in 1..Len(endpoints') :
            /\ endpoints'[i].url = rec.url
            /\ endpoints'[i].is_healthy
            /\ endpoints'[i].latency_ms = rec.latency_ms
            /\ endpoints'[i].consecutive_failures = 0]_vars

\* The order of C20: f goes before e.
Precedes(f, e) ==
    \/ f.is_primary /\ ~e.is_primary
    \/ /\ f.is_primary = e.is_primary
       /\ f.latency_ms # Nothing
       /\ e.latency_ms = Nothing \/ f.latency_ms[1] < e.latency_ms[1]

NoneOpen ==
    \A key \in DOMAIN circuit_breakers : GetState(circuit_breakers[key]) # "Open"

C20_WitnessLatency ==
    /\ endpoints = <<Endpoint(UrlA, Some(100), TRUE, 0, FALSE),
                     Endpoint(UrlB, Some(50), TRUE, 0, FALSE)>>
    /\ NoneOpen
    /\ sel.pc = "done" /\ sel.config = UrlC
    /\ sel.result = [kind |-> "ok", url |-> UrlB]

\* A step in which a select_url call returns.
SelectEnds == sel' # sel /\ sel'.pc = "done"

\* The call returns from its filter loop having found no candidate available.
NoneAvailable ==
    /\ sel.pc = "check"
    /\ \A i \in 1..Len(sel.checked) : SawUnavailable(sel.checked[i])

\* C21 as stated: when the provider has no persisted endpoints, or no
\* candidate has an available breaker, select_url returns config_base_url
\* unchanged and does not error.
C21_DegradesToConfig ==
    [][SelectEnds /\ (endpoints = <<>> \/ NoneAvailable)
        => sel'.result = [kind |-> "ok", url |-> sel'.config]]_vars

(***************************************************************************)
(* Properties of UrlLatencyService (checked under SpecService).            *)
(***************************************************************************)
AliveTasks == {i \in ProbeTasks : Alive(ptasks[i])}

\* C22: for any sequence of start and stop calls, at most one background
\* probe task is alive at any time: a start() while running spawns nothing,
\* and a start() after a stop() never leaves the earlier task running
\* alongside the new one.
C22_AtMostOneTask == Cardinality(AliveTasks) <= 1

\* The loop of task i reads the running flag after a tick.
ReadsFlag(i) == ptasks[i].pc = "check" /\ ptasks'[i].pc # "check"

\* C23: once stop() has set running = false, the task spawned by the
\* preceding start() terminates at its next tick and begins no probe cycle at
\* or after that tick, under every interleaving of later start/stop calls.
C23_StoppedTaskEnds ==
    [][\A i \in ProbeTasks :
        ReadsFlag(i) /\ ptasks[i].stopped => ptasks'[i].pc = "ended"]_vars

\* Task i leaves a probe cycle.
CycleEnds(i) ==
    /\ ptasks[i].pc \in {"app", "provider"}
    /\ ptasks'[i].pc \notin {"app", "provider"}

\* Every app was attempted, and every provider of every app whose providers
\* could be read was tested.
CycleComplete(t) ==
    /\ t.attempted = {ProbeApps[a] : a \in 1..Len(ProbeApps)}
    /\ \A a \in 1..Len(ProbeApps) :
        ProbeApps[a] \notin t.unread =>
            \A p \in 1..Len(GetFailoverProviders(ProbeApps[a])) :
                <<ProbeApps[a], GetFailoverProviders(ProbeApps[a])[p]>> \in t.tested

\* C24: within a probe tick, an error while testing one app does not stop the
\* remaining apps from being tested, an error while testing one provider does
\* not stop the remaining providers of that app, and no such error ends the
\* background loop: the task goes on to await its next tick.
C24_ErrorsAreOnlyLogged ==
    [][\A i \in ProbeTasks :
        CycleEnds(i) => ptasks'[i].pc = "tick" /\ CycleComplete(ptasks'[i])]_vars

\* A cycle has ended in which the providers of the first app could not be
\* read and the first provider of the second app failed; the second provider
\* of the second app and those of the third were tested all the same.
C24_Witness ==
    \E i \in ProbeTasks :
        /\ ptasks[i].pc = "tick"
        /\ ProbeApps[1] \in ptasks[i].unread
        /\ <<ProbeApps[2], "p1">> \in ptasks[i].failed
        /\ <<ProbeApps[2], "p2">> \in ptasks[i].tested
        /\ <<ProbeApps[3], "p2">> \in ptasks[i].tested

(***************************************************************************)
(* Properties of a probe cycle (checked under SpecProbe and SpecProbeRace). *)
(***************************************************************************)
\* The persisted endpoint of a URL, as a set (empty if there is none).
Persisted(eps, url) == {eps[i] : i \in {j \in 1..Len(eps) : eps[j].url = url}}

\* The probed endpoint's record holds what the probe found: is_healthy as
\* the probe computed it, and the failures counted from the value persisted
\* before.
HoldsProbeResult(r) ==
    \A before \in Persisted(probe.snapshot, r.url) :
        \A e \in Persisted(endpoints, r.url) :
            /\ e.is_healthy = (~r.error /\ r.latency # Nothing)
            /\ e.consecutive_failures =
                    IF ~r.error /\ r.latency # Nothing THEN 0
                    ELSE before.consecutive_failures + 1

\* C25: after test_provider_endpoints finishes for a provider with no other
\* writer active, each probed endpoint's persisted record has is_healthy equal
\* to (the probe returned no error and a latency) and consecutive_failures
\* equal to 0 if that is true, else the value persisted before plus 1.
C25_PersistsProbeResult ==
    probe.pc = "done" /\ probe.ret = "ok" =>
        \A i \in 1..Len(probe.results) : HoldsProbeResult(probe.results[i])

\* A step in which a test_provider_endpoints call returns.
ProbeEnds == probe.pc # "done" /\ probe'.pc = "done"

\* Endpoint i is healthy with a measured latency, and lower than every other
\* such endpoint: by latency, by URL on equal latencies.
Qualifies(e) == e.is_healthy /\ e.latency_ms # Nothing

IsBest(eps, i) ==
    /\ Qualifies(eps[i])
    /\ \A j \in 1..Len(eps) :
        j # i /\ Qualifies(eps[j]) =>
            \/ eps[i].latency_ms[1] < eps[j].latency_ms[1]
            \/ /\ eps[i].latency_ms[1] = eps[j].latency_ms[1]
               /\ UrlLess(eps[i].url, eps[j].url)

\* The URLs marked primary.
Primaries(eps) == {eps[i].url : i \in {j \in 1..Len(eps) : eps[j].is_primary}}

\* The primary marking is on the best endpoint; if no endpoint qualifies, it
\* is as it was in before.
PrimaryIsBest(eps, before) ==
    IF \E i \in 1..Len(eps) : Qualifies(eps[i])
    THEN \A i \in 1..Len(eps) : eps[i].is_primary <=> IsBest(eps, i)
    ELSE Primaries(eps) = Primaries(before)

C26_WitnessTie ==
    /\ probe.pc = "done" /\ probe.ret = "ok" /\ nresults = 0
    /\ Len(probe.snapshot) = 2 /\ Len(endpoints) = 2
    /\ probe.snapshot[2].is_primary
    /\ endpoints[1].is_healthy /\ endpoints[1].latency_ms = Some(80)
    /\ endpoints[2].is_healthy /\ endpoints[2].latency_ms = Some(80)
    /\ Primaries(endpoints) = {UrlA}

\* No endpoint qualifies at the end of the cycle, and A is primary as before.
C26_WitnessNone ==
    /\ probe.pc = "done" /\ probe.ret = "ok" /\ nresults = 0
    /\ Len(endpoints) = 2
    /\ \A i \in 1..Len(endpoints) : ~Qualifies(endpoints[i])
    /\ Primaries(probe.snapshot) = {UrlA}
    /\ Primaries(endpoints) = {UrlA}

\* In the cycle every endpoint was persisted healthy, was found healthy, and
\* got the latency it had persisted.
AllHealthySameLatency(p) ==
    /\ p.results # <<>>
    /\ \A i \in 1..Len(p.results) :
        /\ ~p.results[i].error
        /\ \A e \in Persisted(p.snapshot, p.results[i].url) :
            e.is_healthy /\ e.latency_ms = p.results[i].latency

NoBreakerOpen ==
    \A i \in 1..Len(endpoints) :
        LET key == BreakerKey(RouterProvider, endpoints[i].url) IN
        key \in DOMAIN circuit_breakers => GetState(circuit_breakers[key]) # "Open"

AtMostOnePrimary(eps) ==
    \A i, j \in 1..Len(eps) : eps[i].is_primary /\ eps[j].is_primary => i = j

\* C28: at most one endpoint per (app_type, provider_id) has is_primary =
\* true, both in the persisted endpoints after any sequence of probe cycles
\* and record_url_result calls, and in the candidate list select_url builds
\* when it adds config_base_url as a virtual endpoint.
C28_AtMostOnePrimary ==
    /\ AtMostOnePrimary(endpoints)
    /\ \A c \in ConfigUrls : AtMostOnePrimary(GetAllUrls(endpoints, c))

\* A cycle has moved the primary marking from A to B while a request result
\* was recorded, and C as config_base_url joins the candidates.
C28_Witness ==
    /\ probe.pc = "done" /\ probe.ret = "ok" /\ nresults > 0
    /\ Primaries(probe.snapshot) = {UrlA}
    /\ Primaries(endpoints) = {UrlB}
    /\ Len(GetAllUrls(endpoints, UrlC)) = 3

OneBreakerPerKey ==
    /\ \A p, q \in created : p[1] = q[1] => p = q
    /\ \A c \in Callers :
        callers[c].pc = "hold" =>
            /\ callers[c].key \in DOMAIN registry
            /\ callers[c].breaker = registry[callers[c].key]
    /\ \A k \in DOMAIN registry : outcomes[registry[k]] = made[k]
    /\ \A k \in RegistryKeys : k \notin DOMAIN registry => made[k] = 0

\* A registered breaker stays registered, under its key.
RegistryKept ==
    \A k \in DOMAIN registry : k \in DOMAIN registry' /\ registry'[k] = registry[k]

\* C30: under any interleaving of concurrent select_url and record_url_result
\* calls, at most one breaker is ever created per key, every caller for that
\* key gets that same breaker, and a registered breaker is never removed or
\* replaced, so outcomes recorded for a key are never lost.
C30_OneBreakerPerKey == []OneBreakerPerKey /\ [][RegistryKept]_vars

\* Two callers have both missed the same key under the read lock, and both
\* hold a breaker now.
C30_Witness ==
    \E c, d \in Callers :
        /\ c # d
        /\ callers[c].pc = "hold" /\ callers[d].pc = "hold"
        /\ callers[c].key = callers[d].key
        /\ callers[c].missed /\ callers[d].missed

(***************************************************************************)
(* Properties of the hybrid mode queries (checked under SpecHybrid).       *)
(***************************************************************************)

\* C31: get_hybrid_config returns the stored configuration when the store
\* read succeeds and exactly {enabled: true, latency_test_interval: 300,
\* url_circuit_failure_threshold: 3} when it fails; is_hybrid_mode_enabled
\* is then true on a read failure.
C31_HybridConfigFallback ==
    LET l == hybrid.last IN
    /\ (l.call = "get_hybrid_config" /\ l.ok)
          => l.config = Some(hybrid.stored[l.app])
    /\ (l.call = "get_hybrid_config" /\ ~l.ok)
          => l.config = Some([enabled |-> TRUE,
                              latency_test_interval |-> 300,
                              url_circuit_failure_threshold |-> 3])
    /\ (l.call = "is_hybrid_mode_enabled" /\ ~l.ok)
          => l.enabled = Some(TRUE)
    /\ (l.call = "is_hybrid_mode_enabled" /\ l.ok)
          => l.enabled = Some(hybrid.stored[l.app].enabled)

\* The read of a store that has hybrid mode off fails.
C31_Witness ==
    /\ hybrid.last.call = "is_hybrid_mode_enabled"
    /\ ~hybrid.last.ok
    /\ ~hybrid.stored[hybrid.last.app].enabled
    /\ hybrid.last.enabled = Some(TRUE)

(***************************************************************************)
(* Properties of the provider form (checked under SpecForm).               *)
(***************************************************************************)

\* The maximal runs of the input that hold no ',', ';' or whitespace, as
\* pairs of their first and last position.
Tokens(s) ==
    {t \in (1..Len(s)) \X (1..Len(s)) :
        /\ t[1] <= t[2]
        /\ \A k \in t[1]..t[2] : s[k] \notin {",", ";", " "}
        /\ t[1] = 1 \/ s[t[1] - 1] \in {",", ";", " "}
        /\ t[2] = Len(s) \/ s[t[2] + 1] \in {",", ";", " "}}

\* A token without its trailing '/' characters.
TokenUrl(s, t) ==
    LET last == CHOOSE e \in (t[1] - 1)..t[2] :
                    /\ e = t[1] - 1 \/ s[e] # "/"
                    /\ \A k \in (e + 1)..t[2] : s[k] = "/"
    IN  SubSeq(s, t[1], last)

\* Where a URL first occurs in the input.
FirstOccurrence(s, url) ==
    CHOOSE a \in 1..Len(s) :
        /\ \E t \in Tokens(s) : t[1] = a /\ TokenUrl(s, t) = url
        /\ \A t \in Tokens(s) : TokenUrl(s, t) = url => a <= t[1]

\* No surrounding whitespace and no trailing '/'.
IsCanonical(url) ==
    url # <<>> => /\ url[1] # " "
                  /\ url[Len(url)] # " "
                  /\ url[Len(url)] # "/"

\* C32: parsing the multi-URL input splits on ',', ';' and whitespace and
\* yields, in first-occurrence order, only non-empty URLs in canonical form,
\* no two of them equal; the endpoint set synced from them is unique after
\* normalization.
C32_ParsedUrlsUnique ==
    form.urls # Nothing =>
        LET urls == form.urls[1]
            s    == form.input
        IN  /\ \A i \in 1..Len(urls) :
                  /\ urls[i] # <<>>
                  /\ IsCanonical(urls[i])
                  /\ \A k \in 1..Len(urls[i]) : urls[i][k] \notin {",", ";", " "}
            /\ \A i, j \in 1..Len(urls) : urls[i] = urls[j] => i = j
            /\ {urls[i] : i \in 1..Len(urls)}
                  = {TokenUrl(s, t) : t \in Tokens(s)} \ {<<>>}
            /\ \A i, j \in 1..Len(urls) :
                  i < j => FirstOccurrence(s, urls[i]) < FirstOccurrence(s, urls[j])
            /\ form.synced =>
                  /\ \A x, y \in form.stored :
                        NormalizeUrl(x) = NormalizeUrl(y) => x = y
                  /\ \A i \in 1..Len(urls) :
                        \E x \in form.stored : NormalizeUrl(x) = urls[i]

\* "a/;a" is parsed to the one URL a and synced over a store that holds "a/".
C32_Witness ==
    /\ form.input = <<"a", "/", ";", "a">>
    /\ form.urls = Some(<<UrlA>>)
    /\ form.synced
    /\ form.stored = {UrlASlash}

\* C38: normalize_url is idempotent and its result has no leading or
\* trailing whitespace and no trailing '/'.
C38_NormalizeIdempotent ==
    /\ form.once # Nothing => IsCanonical(form.once[1])
    /\ form.twice # Nothing => form.twice = form.once

(***************************************************************************)
(* Properties of TextInput (checked under SpecInput).                      *)
(***************************************************************************)

\* C39: after any sequence of TextInput operations the cursor is between 0
\* and the byte length of the value and on a character boundary, so that no
\* operation indexes the string at an invalid position.
C39_CursorOnCharBoundary ==
    /\ 0 <= popup_input.cursor
    /\ popup_input.cursor <= ByteLen(popup_input.value)
    /\ IsCharBoundary(popup_input.value, popup_input.cursor)
    /\ ~popup_input.panicked

(***************************************************************************)
(* Concurrent switches of one app (checked under SpecSwitch).              *)
(***************************************************************************)

\* C34: after all try_switch calls for one app have completed, concurrent
\* calls for different providers of the app included, the provider that is
\* current in the database is the provider the device-local settings record
\* as current.  Stated for calls that ran to their end without a failed
\* write: every call returned Ok(true) or Ok(false).
C34_StoresAgree ==
    (\A t \in Tasks : task[t].pc = "done" /\ task[t].result \in {"true", "false"})
        => \A app \in SwitchApps \cap AppTypes :
               dbCurrent[app] = {settingsCurrent[app]}

(***************************************************************************)
(* Spellings of one URL (checked under SpecRouter).                        *)
(***************************************************************************)

\* The URLs of the model that have the canonical form of url.
SpellingsOf(url) ==
    {u \in {UrlA, UrlASlash, UrlB, UrlC} : TrimEndSlash(u) = TrimEndSlash(url)}

\* The breaker kept for some spelling of url is open, its cooldown running.
TrippedUnderSomeSpelling(url) ==
    \E u \in SpellingsOf(url) :
        /\ BreakerKey(RouterProvider, u) \in DOMAIN circuit_breakers
        /\ ~IsAvailable(circuit_breakers[BreakerKey(RouterProvider, u)], now)

\* C35: two URL strings of one provider with the same canonical form are
\* governed by one breaker: when failures recorded under one spelling have
\* tripped it, select_url treats the candidate as unavailable under the other
\* spelling too.
C35_SpellingsShareBreaker ==
    [][IsAvailableAsked =>
          LET entry == sel'.checked[Len(sel'.checked)] IN
          TrippedUnderSomeSpelling(entry.endpoint.url) => ~entry.kept]_vars

(***************************************************************************)
(* Concurrent record_url_result calls (checked under SpecRecords).         *)
(***************************************************************************)

\* C33: once all concurrently running record_url_result calls for one URL
\* have completed, the persisted consecutive_failures and is_healthy of the
\* endpoint equal the breaker's final consecutive_failures and (final state
\* is not Open).  Stated for calls whose store write went through.
C33_StoreMatchesBreaker ==
    (\A c \in Tasks : recs[c].pc = "done" /\ recs[c].wrote) =>
        LET b == circuit_breakers[BreakerKey(RouterProvider, UrlA)] IN
        \A e \in Persisted(endpoints, UrlA) :
            /\ e.consecutive_failures = GetStats(b).consecutive_failures
            /\ e.is_healthy = (GetState(b) # "Open")

(***************************************************************************)
(* Properties of a probe cycle (checked under SpecCycle).                  *)
(***************************************************************************)

\* The step belongs to the test_app_endpoints call in progress.
SameCycle == cycle'.ncalls = cycle.ncalls

\* An update_endpoint_health of the provider in hand fails in this step.
UpdateFails == SameCycle /\ cycle'.failed # cycle.failed

\* The providers of a list.
ProviderSet(providers) == {providers[i] : i \in 1..Len(providers)}

\* C36: if update_endpoint_health fails for one probe result, the error is
\* returned at once: no later result of that provider is persisted or fed
\* to its breaker and its primary endpoint is not recomputed in that cycle;
\* what was processed before stays committed, and the other providers of
\* the app are still tested.
C36_FailedUpdateEndsProvider ==
    [][/\ UpdateFails =>
            /\ cycle'.pc \in {"provider", "done"}
            /\ cycle'.pc = "provider" => cycle'.k = cycle.k + 1
            /\ store' = store
            /\ circuit_breakers' = circuit_breakers
       /\ SameCycle =>
            \A p \in cycle.failed :
                /\ store'[<<cycle.app, p>>] = store[<<cycle.app, p>>]
                /\ BreakersOf(p, circuit_breakers')
                      = BreakersOf(p, circuit_breakers)
       /\ (SameCycle /\ cycle.pc # "done" /\ cycle'.pc = "done"
             /\ cycle.providers # <<>>)
            => /\ cycle'.attempted = ProviderSet(cycle.providers)
               /\ cycle'.ret = "ok"]_vars

\* The write for the second endpoint of p1 failed after the first endpoint
\* was measured and fed to its breaker; p2 was probed all the same.
C36_Witness ==
    /\ cycle.pc = "done"
    /\ cycle.app = "claude"
    /\ cycle.failed = {"p1"}
    /\ store[<<"claude", "p1">>][1].latency_ms = Some(80)
    /\ store[<<"claude", "p1">>][2].latency_ms = Nothing
    /\ BreakerKey("p1", UrlA) \in DOMAIN circuit_breakers
    /\ BreakerKey("p1", UrlB) \notin DOMAIN circuit_breakers
    /\ "p2" \in cycle.probed
    /\ store[<<"claude", "p2">>][1].latency_ms = Some(200)

\* The providers of the app that get_failover_providers returns.
InQueue(app, p) == p \in ProviderSet(GetFailoverProviders(app))

\* C37 (state part): a cycle reads endpoints and probes only for providers
\* returned by get_failover_providers(app_type), and probes none that has
\* no endpoints.
OnlyFailoverProvidersRead ==
    /\ \A pair \in cycle.read : pair[1] = cycle.app /\ InQueue(cycle.app, pair[2])
    /\ \A p \in cycle.attempted \cup cycle.probed : InQueue(cycle.app, p)
    /\ \A p \in cycle.probed : store[<<cycle.app, p>>] # <<>>

\* C37 (step part): a step of a cycle leaves the endpoints of every provider
\* outside the failover queue of its app, and their breakers, unchanged; for
\* a provider with no endpoints nothing is written at all.
OnlyFailoverProvidersWritten ==
    /\ \A pair \in Pairs :
          (pair[1] # cycle'.app \/ ~InQueue(cycle'.app, pair[2]))
              => store'[pair] = store[pair]
    /\ \A p \in CycleProviders :
          ~InQueue(cycle'.app, p)
              => BreakersOf(p, circuit_breakers') = BreakersOf(p, circuit_breakers)
    /\ (cycle.pc = "provider" /\ store[CyclePair(cycle)] = <<>>)
          => /\ store' = store
             /\ circuit_breakers' = circuit_breakers
             /\ cycle'.pc \in {"provider", "done"}
             /\ cycle'.probed = cycle.probed

\* C37: a probe cycle reads and writes endpoint health, breaker state and
\* primary markings only for providers returned by
\* get_failover_providers(app_type); for a provider with no endpoints it
\* performs no probe and no write, and endpoints of providers outside the
\* failover queue are left unchanged.
C37_OnlyFailoverProviders ==
    []OnlyFailoverProvidersRead /\ [][OnlyFailoverProvidersWritten]_vars

\* A codex cycle is over: p1, which has no endpoints, was handed to
\* test_provider_endpoints and not probed, p2 was probed and written, and
\* p3 of codex and every provider of claude are as they were.
C37_Witness ==
    /\ cycle.pc = "done"
    /\ cycle.app = "codex"
    /\ cycle.ncalls = 1
    /\ cycle.attempted = {"p1", "p2"}
    /\ cycle.probed = {"p2"}
    /\ store[<<"codex", "p1">>] = <<>>
    /\ store[<<"codex", "p2">>][1].latency_ms = Some(80)
    /\ store[<<"codex", "p3">>] = FreshEndpoints(<<UrlA>>)
    /\ store[<<"claude", "p1">>] = FreshEndpoints(<<UrlA, UrlB>>)
    /\ BreakerKey("p2", UrlB) \in DOMAIN circuit_breakers

====
